---------------------------- MODULE Spec2Model ----------------------------
(***************************************************************************)
(* LyricalEditorPlus: the timestamp codec (utils/timeUtils), the subtitle  *)
(* parsers and serializers (services/subtitleParser.ts) and the editor     *)
(* operations built on them.                                                *)
(*                                                                          *)
(* Text is a sequence of one-character strings.  A JavaScript number is an  *)
(* integer (milliseconds, unless stated otherwise) or the one value NaN;    *)
(* the inputs are drawn so that every finite result is integral.            *)
(***************************************************************************)
EXTENDS Integers, Sequences, FiniteSets, TLC

VARIABLES
    pc,       \* the step the scenario has reached
    ms,       \* codec: the millisecond count handed to an encoder
    origin,   \* codec: where timeStr comes from (an encoder, or the fields typed)
    timeStr,  \* codec: the timestamp text (an encoder's output, a decoder's input)
    decoded,  \* codec: what timeToMs returned for timeStr
    cues,     \* documents: the cue list handed to stringifyContent
    format,   \* documents: the SubtitleFormat tag handed to stringifyContent, or detected
    content,  \* documents: the document (text, or a JSON value) handed to parseContent
    parseTag, \* documents: the SubtitleFormat tag handed to parseContent
    result,   \* documents: the ParseResult of the last parseContent
    assistant, \* editor: the AI assistant dialog (its state, request and calls made)
    editor    \* editor: the cue list (its drag state, the focused input, the calls made)

codecVars == <<ms, origin, timeStr, decoded>>
docVars == <<cues, format, content, parseTag, result>>
uiVars == <<assistant, editor>>
vars == <<pc, ms, origin, timeStr, decoded, cues, format, content, parseTag, result,
          assistant, editor>>

(***************************************************************************)
(* Characters and the String methods the code uses.                        *)
(***************************************************************************)
DigitChars == <<"0", "1", "2", "3", "4", "5", "6", "7", "8", "9">>

IsDigit(c) == \E i \in 1..10 : DigitChars[i] = c

DigitVal(c) == (CHOOSE i \in 1..10 : DigitChars[i] = c) - 1

\* The white space String.prototype.trim and the regex class \s remove.
IsSpace(c) == c \in {" ", "\t", "\n", "\r"}

\* The value of NaN: outside the range of every number the model computes.
NaN == -2147483647

\* Number.prototype.toString of an integer n >= 0.
RECURSIVE ToStr(_)
ToStr(n) ==
    IF n < 10 THEN <<DigitChars[n + 1]>>
    ELSE ToStr(n \div 10) \o <<DigitChars[(n % 10) + 1]>>

\* String.prototype.padStart(n, c).
RECURSIVE padStart(_, _, _)
padStart(s, n, c) == IF Len(s) >= n THEN s ELSE padStart(<<c>> \o s, n, c)

\* parseInt(s, 10) of a text of digits.
RECURSIVE parseInt(_)
parseInt(s) ==
    IF Len(s) = 0 THEN 0
    ELSE parseInt(SubSeq(s, 1, Len(s) - 1)) * 10 + DigitVal(s[Len(s)])

RECURSIVE TrimStart(_)
TrimStart(s) ==
    IF Len(s) > 0 /\ IsSpace(s[1]) THEN TrimStart(Tail(s)) ELSE s

RECURSIVE TrimEnd(_)
TrimEnd(s) ==
    IF Len(s) > 0 /\ IsSpace(s[Len(s)]) THEN TrimEnd(SubSeq(s, 1, Len(s) - 1)) ELSE s

\* String.prototype.trim.
trim(s) == TrimEnd(TrimStart(s))

startsWith(s, p) == Len(s) >= Len(p) /\ SubSeq(s, 1, Len(p)) = p

endsWith(s, p) == Len(s) >= Len(p) /\ SubSeq(s, Len(s) - Len(p) + 1, Len(s)) = p

\* The least number of a set of indexes, 0 for the empty set.
FirstOf(hits) == IF hits = {} THEN 0 ELSE CHOOSE k \in hits : \A m \in hits : k <= m

\* The first index at or after i where p occurs in s, 0 when there is none.
IndexFrom(s, p, i) ==
    FirstOf({k \in i..(Len(s) - Len(p) + 1) : SubSeq(s, k, k + Len(p) - 1) = p})

\* String.prototype.includes.
includes(s, p) == IndexFrom(s, p, 1) # 0

\* String.prototype.split(sep) with a non-empty separator text.
RECURSIVE split(_, _)
split(s, sep) ==
    LET i == IndexFrom(s, sep, 1)
    IN  IF i = 0 THEN <<s>>
        ELSE <<SubSeq(s, 1, i - 1)>> \o split(SubSeq(s, i + Len(sep), Len(s)), sep)

\* Array.prototype.join(sep).
RECURSIVE join(_, _)
join(parts, sep) ==
    IF Len(parts) = 0 THEN <<>>
    ELSE IF Len(parts) = 1 THEN parts[1]
    ELSE parts[1] \o sep \o join(Tail(parts), sep)

\* The concatenation of a sequence of sequences.
Flatten(seqs) == join(seqs, <<>>)

\* The number of consecutive digits of s from index i on.
RECURSIVE DigitRun(_, _)
DigitRun(s, i) ==
    IF i <= Len(s) /\ IsDigit(s[i]) THEN 1 + DigitRun(s, i + 1) ELSE 0

(***************************************************************************)
(* Time codec.                                                              *)
(***************************************************************************)
\* Math.round of ms / 10 for an integer ms >= 0 (ties go up).
RoundDiv10(n) == (n + 5) \div 10

\* msToSrt with the minutes taken from the total, not from the rest of the hour.
msToSrt_TotalMinutes(n) ==
    LET roundedMs == n
        h == padStart(ToStr(roundedMs \div 3600000), 2, "0")
        m == padStart(ToStr(roundedMs \div 60000), 2, "0")
        s == padStart(ToStr((roundedMs % 60000) \div 1000), 2, "0")
        mis == padStart(ToStr(roundedMs % 1000), 3, "0")
    IN  h \o <<":">> \o m \o <<":">> \o s \o <<",">> \o mis

msToSrt(n) ==
    LET roundedMs == n
        h == padStart(ToStr(roundedMs \div 3600000), 2, "0")
        m == padStart(ToStr((roundedMs % 3600000) \div 60000), 2, "0")
        s == padStart(ToStr((roundedMs % 60000) \div 1000), 2, "0")
        mis == padStart(ToStr(roundedMs % 1000), 3, "0")
    IN  h \o <<":">> \o m \o <<":">> \o s \o <<",">> \o mis

msToLrc(n) ==
    LET roundedMs == RoundDiv10(n) * 10
        m == padStart(ToStr(roundedMs \div 60000), 2, "0")
        s == padStart(ToStr((roundedMs % 60000) \div 1000), 2, "0")
        centis == padStart(ToStr((roundedMs % 1000) \div 10), 2, "0")
    IN  m \o <<":">> \o s \o <<".">> \o centis

\* msToVtt with the hours of a clock that starts again every 24 hours.
msToVtt_DayClock(n) ==
    LET roundedMs == n
        h == padStart(ToStr((roundedMs \div 3600000) % 24), 2, "0")
        m == padStart(ToStr((roundedMs % 3600000) \div 60000), 2, "0")
        s == padStart(ToStr((roundedMs % 60000) \div 1000), 2, "0")
        mis == padStart(ToStr(roundedMs % 1000), 3, "0")
    IN  h \o <<":">> \o m \o <<":">> \o s \o <<".">> \o mis

msToVtt(n) ==
    LET roundedMs == n
        h == padStart(ToStr(roundedMs \div 3600000), 2, "0")
        m == padStart(ToStr((roundedMs % 3600000) \div 60000), 2, "0")
        s == padStart(ToStr((roundedMs % 60000) \div 1000), 2, "0")
        mis == padStart(ToStr(roundedMs % 1000), 3, "0")
    IN  h \o <<":">> \o m \o <<":">> \o s \o <<".">> \o mis

\* parseFloat(s) * 1000: the longest prefix [+-]digits[.digits] of s after
\* leading white space, NaN when no digit starts one.  Exponents and
\* "Infinity" are outside the input alphabet; fractions have at most three
\* digits, chosen so that the double product is integral.
ParseFloatFraction(fracStr) ==
    IF Len(fracStr) = 0 THEN 0
    ELSE IF Len(fracStr) = 1 THEN parseInt(fracStr) * 100
    ELSE IF Len(fracStr) = 2 THEN parseInt(fracStr) * 10
    ELSE parseInt(SubSeq(fracStr, 1, 3))

\* body has a digits, then (when f > 0 or a '.' follows) a '.' and f digits.
ParseFloatValue(negative, body, a, f) ==
    LET magnitude == parseInt(SubSeq(body, 1, a)) * 1000
                     + ParseFloatFraction(SubSeq(body, a + 2, a + 1 + f))
    IN  IF a = 0 /\ f = 0 THEN NaN
        ELSE IF negative THEN 0 - magnitude
        ELSE magnitude

ParseFloatDigits(negative, body, a) ==
    ParseFloatValue(negative, body, a,
                    IF Len(body) > a /\ body[a + 1] = "." THEN DigitRun(body, a + 2) ELSE 0)

ParseFloatSigned(s) ==
    LET signed == Len(s) > 0 /\ s[1] \in {"+", "-"}
    IN  ParseFloatDigits(signed /\ s[1] = "-",
                         IF signed THEN Tail(s) ELSE s,
                         DigitRun(IF signed THEN Tail(s) ELSE s, 1))

ParseFloatMilli(str) == ParseFloatSigned(TrimStart(str))

\* /^(\d{1,2}):(\d{2})(?:\.(\d{1,3}))?$/: <<matched, group 1, group 2, group 3>>,
\* group 3 empty when absent.
LrcGroups(s, a, b, f) ==
    LET head == a \in 1..2 /\ Len(s) >= a + 3 /\ s[a + 1] = ":" /\ b >= 2
        plain == head /\ Len(s) = a + 3
        fraction == head /\ Len(s) > a + 4 /\ s[a + 4] = "." /\ b = 2
                    /\ f \in 1..3 /\ Len(s) = a + 4 + f
    IN  IF plain THEN <<TRUE, SubSeq(s, 1, a), SubSeq(s, a + 2, a + 3), <<>>>>
        ELSE IF fraction
        THEN <<TRUE, SubSeq(s, 1, a), SubSeq(s, a + 2, a + 3), SubSeq(s, a + 5, Len(s))>>
        ELSE <<FALSE, <<>>, <<>>, <<>>>>

LrcMatch(s) ==
    LrcGroups(s, DigitRun(s, 1), DigitRun(s, DigitRun(s, 1) + 2),
              DigitRun(s, DigitRun(s, 1) + 5))

\* /^(?:(\d{1,2}):)?(\d{1,2}):(\d{1,2})[.,](\d{1,3})$/:
\* <<matched, group 1, group 2, group 3, group 4>>, group 1 empty when absent.
\* a, b and c are the lengths of the first three digit runs; f2 is the run
\* after 'a:b.' (no hours), f3 the run after 'a:b:c.' (with hours).
FullGroups(s, a, b, c, f2, f3) ==
    LET IsSep(i) == i <= Len(s) /\ s[i] \in {".", ","}
        head == a \in 1..2 /\ Len(s) > a /\ s[a + 1] = ":" /\ b \in 1..2
        two == head /\ IsSep(a + b + 2) /\ f2 \in 1..3 /\ Len(s) = a + b + 2 + f2
        three == head /\ Len(s) > a + b + 1 /\ s[a + b + 2] = ":" /\ c \in 1..2
                 /\ IsSep(a + b + c + 3) /\ f3 \in 1..3
                 /\ Len(s) = a + b + c + 3 + f3
    IN  IF three
        THEN <<TRUE, SubSeq(s, 1, a), SubSeq(s, a + 2, a + b + 1),
               SubSeq(s, a + b + 3, a + b + c + 2), SubSeq(s, a + b + c + 4, Len(s))>>
        ELSE IF two
        THEN <<TRUE, <<>>, SubSeq(s, 1, a), SubSeq(s, a + 2, a + b + 1),
               SubSeq(s, a + b + 3, Len(s))>>
        ELSE <<FALSE, <<>>, <<>>, <<>>, <<>>>>

FullRuns(s, a, b, c) == FullGroups(s, a, b, c, c, DigitRun(s, a + b + c + 4))

FullMatch(s) ==
    FullRuns(s, DigitRun(s, 1), DigitRun(s, DigitRun(s, 1) + 2),
             DigitRun(s, DigitRun(s, 1) + DigitRun(s, DigitRun(s, 1) + 2) + 3))

\* /^\d+(\.\d+)?$/
NumericMatch(s) ==
    LET a == DigitRun(s, 1)
        f == DigitRun(s, a + 2)
    IN  a >= 1 /\ (Len(s) = a
                   \/ (Len(s) > a + 1 /\ s[a + 1] = "." /\ f >= 1 /\ Len(s) = a + 1 + f))

\* FractionMs without the scaling of short fractions.
FractionMs_Unscaled(msStr) == parseInt(msStr)

\* The fraction digits of a timestamp as milliseconds: .1 -> 100, .12 -> 120,
\* .123 -> 123.
FractionMs(msStr) ==
    IF Len(msStr) = 3 THEN parseInt(msStr)
    ELSE IF Len(msStr) = 2 THEN parseInt(msStr) * 10
    ELSE IF Len(msStr) = 1 THEN parseInt(msStr) * 100
    ELSE parseInt(msStr)

\* The branches of timeToMs after both regular expressions have been tried.
timeToMsMatched(cleanStr, lrcMatch, fullMatch) ==
    IF lrcMatch[1]
    THEN parseInt(lrcMatch[2]) * 60000 + parseInt(lrcMatch[3]) * 1000
         + FractionMs(IF Len(lrcMatch[4]) = 0 THEN <<"0">> ELSE lrcMatch[4])
    ELSE IF fullMatch[1]
    THEN (IF Len(fullMatch[2]) = 0 THEN 0 ELSE parseInt(fullMatch[2])) * 3600000
         + parseInt(fullMatch[3]) * 60000 + parseInt(fullMatch[4]) * 1000
         + FractionMs(fullMatch[5])
    ELSE IF NumericMatch(cleanStr) THEN ParseFloatMilli(cleanStr)
    ELSE 0

\* parseFloat(prefix) of a text that ends with 'ms' (n = 2) or 's' (n = 1).
SuffixMs(p, n) == IF n = 1 \/ p = NaN THEN p ELSE p \div 1000

timeToMsTrimmed(cleanStr) ==
    IF endsWith(cleanStr, <<"s">>)
    THEN LET n == IF endsWith(cleanStr, <<"m", "s">>) THEN 2 ELSE 1
         IN  SuffixMs(ParseFloatMilli(SubSeq(cleanStr, 1, Len(cleanStr) - n)), n)
    ELSE timeToMsMatched(cleanStr, LrcMatch(cleanStr), FullMatch(cleanStr))

timeToMs(str) == IF Len(str) = 0 THEN 0 ELSE timeToMsTrimmed(trim(str))

(***************************************************************************)
(* The data model (types.ts).  A Cue is [id, start, end, text, hasWords,   *)
(* words]: hasWords is FALSE for `words: undefined`.  A Word is            *)
(* [id, text, start, end]; an absent number is Undefined.  Metadata is     *)
(* [title, artist, album, by], an absent field the empty text.             *)
(***************************************************************************)
\* The value of an absent (undefined) number: outside the range of every
\* number the model computes.
Undefined == -2147483646

\* Whether a number counts as true in `a || b` and `a ? b : c`.
Truthy(n) == n # 0 /\ n # NaN /\ n # Undefined

Formats ==
    {"lrc", "lrc_enhanced", "srt", "vtt", "vtt_karaoke", "ttml", "ttml_karaoke",
     "txt", "json"}

NoMetadata == [title |-> <<>>, artist |-> <<>>, album |-> <<>>, by |-> <<>>]

NL == <<"\n">>

\* Array.prototype.map over a sequence, with the 0-based index.
MapIndexed(seq, F(_, _)) == [i \in 1..Len(seq) |-> F(seq[i], i - 1)]

\* String.prototype.replace(/\r\n/g, '\n').
ReplaceCRLF(s) == join(split(s, <<"\r", "\n">>), NL)

\* String.prototype.split(/\r?\n/).
RECURSIVE SplitLines(_)
SplitLines(s) ==
    LET i == IndexFrom(s, NL, 1)
        stop == IF i > 1 /\ s[i - 1] = "\r" THEN i - 2 ELSE i - 1
    IN  IF i = 0 THEN <<s>>
        ELSE <<SubSeq(s, 1, stop)>> \o SplitLines(SubSeq(s, i + 1, Len(s)))

\* String.prototype.replace(/<[^>]+>/g, ''): every '<', one or more characters
\* other than '>', and the '>' after them are removed.
RECURSIVE StripTags(_)
StripTags(s) ==
    LET i == IndexFrom(s, <<"<">>, 1)
        j == IndexFrom(s, <<">">>, i + 1)
    IN  IF i = 0 THEN s
        ELSE IF j > i + 1 THEN SubSeq(s, 1, i - 1) \o StripTags(SubSeq(s, j + 1, Len(s)))
        ELSE SubSeq(s, 1, i) \o StripTags(SubSeq(s, i + 1, Len(s)))

\* String.prototype.split(/\s+/) of a trimmed, non-empty text.
RECURSIVE SplitSpaces(_)
SplitSpaces(s) ==
    LET RECURSIVE WordEnd(_)
        WordEnd(i) == IF i <= Len(s) /\ ~IsSpace(s[i]) THEN WordEnd(i + 1) ELSE i
        e == WordEnd(1)
    IN  IF e > Len(s) THEN <<s>>
        ELSE <<SubSeq(s, 1, e - 1)>> \o SplitSpaces(TrimStart(SubSeq(s, e, Len(s))))

(***************************************************************************)
(* Serializers (subtitleParser.ts).                                        *)
(***************************************************************************)
Str_Arrow == <<" ", "-", "-", ">", " ">>
Str_WEBVTT == <<"W", "E", "B", "V", "T", "T">>
Str_NoteTitle == <<"N", "o", "t", "e", " ", "T", "i", "t", "l", "e", ":">>

\* `<${time}>${w.text}` for each word, joined by spaces.
WordTokens(cue, Encode(_)) ==
    join([i \in 1..Len(cue.words) |->
            <<"<">> \o Encode(IF Truthy(cue.words[i].start) THEN cue.words[i].start
                              ELSE cue.start)
            \o <<">">> \o cue.words[i].text],
         <<" ">>)

LrcHeaderLine(tag, value) ==
    IF Len(value) > 0 THEN <<"[">> \o tag \o <<":">> \o value \o <<"]">> \o NL ELSE <<>>

stringifyLRC(cueList, enhanced, metadata) ==
    LET header == LrcHeaderLine(<<"t", "i">>, metadata.title)
                  \o LrcHeaderLine(<<"a", "r">>, metadata.artist)
                  \o LrcHeaderLine(<<"a", "l">>, metadata.album)
                  \o LrcHeaderLine(<<"b", "y">>, metadata.by)
        Line(cue, index) ==
            <<"[">> \o msToLrc(cue.start) \o <<"]">>
            \o (IF enhanced /\ cue.hasWords /\ Len(cue.words) > 0
                THEN WordTokens(cue, msToLrc)
                ELSE cue.text)
    IN  header \o join(MapIndexed(cueList, Line), NL)

stringifySRT(cueList) ==
    LET Block(cue, index) ==
            ToStr(index + 1) \o NL
            \o msToSrt(cue.start) \o Str_Arrow \o msToSrt(cue.end) \o NL
            \o cue.text \o NL
    IN  join(MapIndexed(cueList, Block), NL)

stringifyVTT(cueList, karaoke, metadata) ==
    LET header == Str_WEBVTT \o NL
                  \o (IF Len(metadata.title) > 0
                      THEN Str_NoteTitle \o <<" ">> \o metadata.title \o NL
                      ELSE <<>>)
                  \o NL
        Block(cue, index) ==
            msToVtt(cue.start) \o Str_Arrow \o msToVtt(cue.end) \o NL
            \o (IF karaoke /\ cue.hasWords /\ Len(cue.words) > 0
                THEN WordTokens(cue, msToVtt)
                ELSE cue.text)
            \o NL
    IN  header \o join(MapIndexed(cueList, Block), NL)

Str_br == <<"<", "b", "r", "/", ">">>
Str_TtmlHead ==
    <<"<", "?", "x", "m", "l", " ", "v", "e", "r", "s", "i", "o", "n", "=",
      "\"", "1", ".", "0", "\"", " ", "e", "n", "c", "o", "d", "i", "n", "g",
      "=", "\"", "U", "T", "F", "-", "8", "\"", "?", ">", "\n", "<", "t",
      "t", " ", "x", "m", "l", "n", "s", "=", "\"", "h", "t", "t", "p", ":",
      "/", "/", "w", "w", "w", ".", "w", "3", ".", "o", "r", "g", "/", "n",
      "s", "/", "t", "t", "m", "l", "\"", " ", "l", "a", "n", "g", "=", "\"",
      "e", "n", "\"", ">", "\n", " ", " ", "<", "b", "o", "d", "y", ">",
      "\n", " ", " ", " ", " ", "<", "d", "i", "v", ">", "\n">>
Str_TtmlFoot ==
    <<"\n", " ", " ", " ", " ", "<", "/", "d", "i", "v", ">", "\n", " ", " ",
      "<", "/", "b", "o", "d", "y", ">", "\n", "<", "/", "t", "t", ">">>
Str_PBegin == <<" ", " ", " ", " ", " ", " ", "<", "p", " ", "b", "e", "g", "i", "n", "=", "\"">>
Str_SpanBegin ==
    <<" ", " ", " ", " ", " ", " ", " ", " ", "<", "s", "p", "a", "n", " ",
      "b", "e", "g", "i", "n", "=", "\"">>
Str_End == <<"\"", " ", "e", "n", "d", "=", "\"">>
Str_TagClose == <<"\"", ">">>
Str_PEnd == <<"<", "/", "p", ">">>
Str_SpanEnd == <<"<", "/", "s", "p", "a", "n", ">">>

\* String.prototype.replace(/\n/g, '<br/>').
ReplaceNewlines(s) == join(split(s, NL), Str_br)

Max0(n) == IF n > 0 THEN n ELSE 0

stringifyTTML(cueList, karaoke) ==
    LET Span(cue, w) ==
            LET wordStart == IF Truthy(w.start) THEN w.start ELSE cue.start
                startOffset == Max0(wordStart - cue.start)
                endOffset == Max0((IF Truthy(w.end) THEN w.end ELSE wordStart + 300)
                                  - cue.start)
            IN  Str_SpanBegin \o msToVtt(startOffset) \o Str_End \o msToVtt(endOffset)
                \o Str_TagClose \o w.text \o Str_SpanEnd
        Paragraph(cue, index) ==
            Str_PBegin \o msToVtt(cue.start) \o Str_End \o msToVtt(cue.end)
            \o Str_TagClose
            \o (IF karaoke /\ cue.hasWords /\ Len(cue.words) > 0
                THEN NL \o join([i \in 1..Len(cue.words) |-> Span(cue, cue.words[i])], NL)
                     \o NL \o <<" ", " ", " ", " ", " ", " ">>
                ELSE ReplaceNewlines(cue.text))
            \o Str_PEnd
    IN  Str_TtmlHead \o join(MapIndexed(cueList, Paragraph), NL) \o Str_TtmlFoot

StanzaBreakThreshold == 2000

\* stringifyTXT with a stanza break only for a gap above the threshold.
stringifyTXT_StrictGap(cueList) ==
    LET Line(cue, index) ==
            cue.text \o NL
            \o (IF index < Len(cueList) - 1
                   /\ cueList[index + 2].start - cue.end > StanzaBreakThreshold
                THEN NL ELSE <<>>)
    IN  trim(Flatten(MapIndexed(cueList, Line)))

stringifyTXT(cueList) ==
    LET Line(cue, index) ==
            cue.text \o NL
            \o (IF index < Len(cueList) - 1
                   /\ cueList[index + 2].start - cue.end >= StanzaBreakThreshold
                THEN NL ELSE <<>>)
    IN  trim(Flatten(MapIndexed(cueList, Line)))

(***************************************************************************)
(* Parsers (subtitleParser.ts).  A ParseResult is [cues, metadata].        *)
(***************************************************************************)
Str_lrc == <<"l", "r", "c", "-">>
Str_w == <<"w", "-">>
Str_srt == <<"s", "r", "t", "-">>
Str_vtt == <<"v", "t", "t", "-">>
Str_vtt_w == <<"v", "t", "t", "-", "w", "-">>

\* The regex class '.': any character but a line terminator.
IsDot(c) == c \notin {"\n", "\r"}

\* The prefix of s that (.*) matches.
DotStar(s) ==
    LET stop == FirstOf({k \in 1..Len(s) : ~IsDot(s[k])})
    IN  IF stop = 0 THEN s ELSE SubSeq(s, 1, stop - 1)

\* The length of the text that \d{2}:\d{2}(?:\.\d{2,3})? matches between the
\* character open at index i of s and the character close after it; 0 when
\* open, the timestamp and close do not match at i.
LrcStampLen(s, i, open, close) ==
    LET At(k, c) == i + k <= Len(s) /\ s[i + k] = c
        Digits(k, n) == \A d \in 0..(n - 1) : i + k + d <= Len(s) /\ IsDigit(s[i + k + d])
        head == At(0, open) /\ Digits(1, 2) /\ At(3, ":") /\ Digits(4, 2)
    IN  IF ~head THEN 0
        ELSE IF At(6, ".") /\ Digits(7, 3) /\ At(10, close) THEN 9
        ELSE IF At(6, ".") /\ Digits(7, 2) /\ At(9, close) THEN 8
        ELSE IF At(6, close) THEN 5
        ELSE 0

\* The first index at or after i where LrcStampLen is not 0; 0 when none.
LrcStampFrom(s, i, open, close) ==
    FirstOf({k \in i..Len(s) : LrcStampLen(s, k, open, close) > 0})

\* content.match(/\[<tag>:(.*?)\]/): the trimmed group 1 of the first match,
\* the empty text when there is none.
RECURSIVE MetaTag(_, _, _)
MetaTag(s, tag, from) ==
    LET open == <<"[">> \o tag \o <<":">>
        i == IndexFrom(s, open, from)
        body == DotStar(SubSeq(s, i + Len(open), Len(s)))
        j == IndexFrom(body, <<"]">>, 1)
    IN  IF i = 0 THEN <<>>
        ELSE IF j > 0 THEN trim(SubSeq(body, 1, j - 1))
        ELSE MetaTag(s, tag, i + 1)

\* The words of an enhanced LRC line: the matches of
\* /<(\d{2}:\d{2}(?:\.\d{2,3})?)>([^<]*)/g in rawText from index `from` on.
RECURSIVE LrcWords(_, _, _)
LrcWords(rawText, index, from) ==
    LET i == LrcStampFrom(rawText, from, "<", ">")
        n == LrcStampLen(rawText, i, "<", ">")
        next == IndexFrom(rawText, <<"<">>, i + n + 2)
        stop == IF next = 0 THEN Len(rawText) + 1 ELSE next
    IN  IF i = 0 THEN <<>>
        ELSE <<[id |-> Str_w \o ToStr(index) \o <<"-">> \o ToStr(i - 1),
                start |-> timeToMs(SubSeq(rawText, i + 1, i + n)),
                end |-> Undefined,
                text |-> trim(SubSeq(rawText, i + n + 2, stop - 1))]>>
             \o LrcWords(rawText, index, stop)

\* The cue of one line, as a sequence of no or one cue.
LrcLineCue(line, index) ==
    LET i == LrcStampFrom(line, 1, "[", "]")
        n == LrcStampLen(line, i, "[", "]")
        start == timeToMs(SubSeq(line, i + 1, i + n))
        rawText == DotStar(SubSeq(line, i + n + 2, Len(line)))
        tagged == includes(rawText, <<"<">>) /\ includes(rawText, <<">">>)
        words == IF tagged THEN LrcWords(rawText, index, 1) ELSE <<>>
    IN  IF i = 0 THEN <<>>
        ELSE <<[id |-> Str_lrc \o ToStr(index),
                start |-> start,
                end |-> start + 3000,
                text |-> IF tagged THEN trim(StripTags(rawText)) ELSE trim(rawText),
                hasWords |-> Len(words) > 0,
                words |-> words]>>

\* Each cue but the last ends where the next starts.
\* parseLRC without its last loop: every cue keeps its placeholder end.
InferEnds_KeepPlaceholder(cueList) == cueList

InferEnds(cueList) ==
    [i \in 1..Len(cueList) |->
        IF i < Len(cueList) THEN [cueList[i] EXCEPT !.end = cueList[i + 1].start]
        ELSE cueList[i]]

parseLRC(text) ==
    LET lines == SplitLines(text)
    IN  [cues |-> InferEnds(Flatten(MapIndexed(lines, LrcLineCue))),
         metadata |-> [title |-> MetaTag(text, <<"t", "i">>, 1),
                       artist |-> MetaTag(text, <<"a", "r">>, 1),
                       album |-> MetaTag(text, <<"a", "l">>, 1),
                       by |-> MetaTag(text, <<"b", "y">>, 1)]]

\* /^\d+$/
AllDigits(s) == Len(s) > 0 /\ DigitRun(s, 1) = Len(s)

\* SrtChunkCue with the first line never taken as an index line.
SrtChunkCue_NoIndexLine(chunk, index) ==
    LET lines == split(chunk, NL)
        times == split(lines[1], <<"-", "-", ">">>)
    IN  IF Len(lines) < 2 THEN <<>>
        ELSE IF Len(lines[1]) = 0 THEN <<>>
        ELSE IF Len(times) # 2 THEN <<>>
        ELSE <<[id |-> Str_srt \o ToStr(index),
                start |-> timeToMs(trim(times[1])),
                end |-> timeToMs(trim(times[2])),
                text |-> join(SubSeq(lines, 2, Len(lines)), NL),
                hasWords |-> FALSE,
                words |-> <<>>]>>

\* The cue of one SRT block, as a sequence of no or one cue.
SrtChunkCue(chunk, index) ==
    LET lines == split(chunk, NL)
        timeLineIndex == IF AllDigits(lines[1]) THEN 1 ELSE 0
        times == split(lines[timeLineIndex + 1], <<"-", "-", ">">>)
    IN  IF Len(lines) < 2 THEN <<>>
        ELSE IF Len(lines[timeLineIndex + 1]) = 0 THEN <<>>
        ELSE IF Len(times) # 2 THEN <<>>
        ELSE <<[id |-> Str_srt \o ToStr(index),
                start |-> timeToMs(trim(times[1])),
                end |-> timeToMs(trim(times[2])),
                text |-> join(SubSeq(lines, timeLineIndex + 2, Len(lines)), NL),
                hasWords |-> FALSE,
                words |-> <<>>]>>

parseSRT(text) ==
    LET chunks == split(ReplaceCRLF(trim(text)), <<"\n", "\n">>)
    IN  [cues |-> Flatten(MapIndexed(chunks, SrtChunkCue)), metadata |-> NoMetadata]

\* The length of the text that \d{2}:\d{2}(?::\d{2})?[.,]\d{3} matches between
\* a '<' at index i of s and the '>' after it; 0 when they do not match at i.
VttStampLen(s, i) ==
    LET At(k, c) == i + k <= Len(s) /\ s[i + k] = c
        Sep(k) == At(k, ".") \/ At(k, ",")
        Digits(k, n) == \A d \in 0..(n - 1) : i + k + d <= Len(s) /\ IsDigit(s[i + k + d])
        head == At(0, "<") /\ Digits(1, 2) /\ At(3, ":") /\ Digits(4, 2)
    IN  IF ~head THEN 0
        ELSE IF At(6, ":") /\ Digits(7, 2) /\ Sep(9) /\ Digits(10, 3) /\ At(13, ">") THEN 12
        ELSE IF Sep(6) /\ Digits(7, 3) /\ At(10, ">") THEN 9
        ELSE 0

VttStampFrom(s, i) == FirstOf({k \in i..Len(s) : VttStampLen(s, k) > 0})

\* line.split(timestampRegex): the texts between the tags at the odd places,
\* the timestamps of the tags at the even places.
RECURSIVE SplitStamps(_)
SplitStamps(s) ==
    LET i == VttStampFrom(s, 1)
        n == VttStampLen(s, i)
    IN  IF i = 0 THEN <<s>>
        ELSE <<SubSeq(s, 1, i - 1), SubSeq(s, i + 1, i + n)>>
             \o SplitStamps(SubSeq(s, i + n + 2, Len(s)))

\* The duration of a segment given whole to each of its words.
Quotient_Whole(a, b) == a

\* a / b; the documents of the model keep the quotient integral.
Quotient(a, b) == CHOOSE q \in {a \div b} : q * b = a

\* The loop over the parts of one tagged line (for k = 0; k < parts.length;
\* k += 2): the words it appends to wordBuffer.
RECURSIVE VttLineWords(_, _, _, _, _)
VttLineWords(parts, k, currentTime, lineIndex, wordBuffer) ==
    LET hasTime == k + 1 <= Len(parts)
        cleanText == trim(StripTags(parts[k]))
        wordsInPart == SplitSpaces(cleanText)
        durationPerWord ==
            Quotient(IF hasTime THEN timeToMs(parts[k + 1]) - currentTime ELSE 0,
                     Len(wordsInPart))
        added ==
            IF Len(cleanText) = 0 THEN <<>>
            ELSE [w \in 1..Len(wordsInPart) |->
                    [id |-> Str_vtt_w \o ToStr(lineIndex) \o <<"-">>
                            \o ToStr(Len(wordBuffer) + w - 1),
                     text |-> wordsInPart[w],
                     start |-> currentTime + durationPerWord * (w - 1),
                     end |-> Undefined]]
    IN  IF k > Len(parts) THEN wordBuffer
        ELSE VttLineWords(parts, k + 2,
                          IF hasTime THEN timeToMs(parts[k + 1]) ELSE currentTime,
                          lineIndex, wordBuffer \o added)

\* currentCue with its text and words, as pushed to cues.
VttFlush(st) ==
    [st.currentCue EXCEPT
        !.text = join(st.textBuffer, NL),
        !.words = IF Len(st.wordBuffer) > 0 THEN st.wordBuffer ELSE @]

\* The for loop of parseVTT from line i (0-based) on; st is
\* [cues, hasCue, currentCue, textBuffer, wordBuffer].
RECURSIVE VttScan(_, _, _)
VttScan(lines, i, st) ==
    LET line == trim(lines[i + 1])
        times == split(line, <<"-", "-", ">">>)
        flushed == st.hasCue /\ Len(st.textBuffer) > 0
        parts == SplitStamps(line)
    IN  IF i >= Len(lines)
        THEN IF flushed THEN Append(st.cues, VttFlush(st)) ELSE st.cues
        ELSE IF includes(line, <<"-", "-", ">">>)
        THEN VttScan(lines, i + 1,
                [cues |-> IF flushed THEN Append(st.cues, VttFlush(st)) ELSE st.cues,
                 hasCue |-> TRUE,
                 currentCue |->
                    [id |-> Str_vtt \o ToStr(i),
                     start |-> timeToMs(split(trim(times[1]), <<" ">>)[1]),
                     end |-> timeToMs(split(trim(times[2]), <<" ">>)[1]),
                     text |-> <<>>,
                     hasWords |-> TRUE,
                     words |-> <<>>],
                 textBuffer |-> IF flushed THEN <<>> ELSE st.textBuffer,
                 wordBuffer |-> IF flushed THEN <<>> ELSE st.wordBuffer])
        ELSE IF Len(line) = 0 /\ st.hasCue
        THEN VttScan(lines, i + 1,
                IF Len(st.textBuffer) > 0
                THEN [st EXCEPT !.cues = Append(st.cues, VttFlush(st)),
                                !.hasCue = FALSE,
                                !.textBuffer = <<>>,
                                !.wordBuffer = <<>>]
                ELSE st)
        ELSE IF st.hasCue
        THEN VttScan(lines, i + 1,
                [st EXCEPT
                    !.textBuffer = Append(@, trim(StripTags(line))),
                    !.wordBuffer =
                        IF Len(parts) > 1
                        THEN VttLineWords(parts, 1,
                                IF Truthy(st.currentCue.start) THEN st.currentCue.start
                                ELSE 0,
                                i, @)
                        ELSE @])
        ELSE VttScan(lines, i + 1, st)

\* The title of the last line that starts with 'Note Title:'.
RECURSIVE VttTitle(_, _)
VttTitle(lines, title) ==
    IF Len(lines) = 0 THEN title
    ELSE VttTitle(Tail(lines),
                  IF startsWith(lines[1], Str_NoteTitle)
                  THEN trim(SubSeq(lines[1], Len(Str_NoteTitle) + 1, Len(lines[1])))
                  ELSE title)

parseVTT(text) ==
    LET lines == split(ReplaceCRLF(trim(text)), NL)
        first == IF startsWith(lines[1], Str_WEBVTT) THEN 1 ELSE 0
        none == [id |-> <<>>, start |-> 0, end |-> 0, text |-> <<>>,
                 hasWords |-> FALSE, words |-> <<>>]
    IN  [cues |-> VttScan(lines, first,
                          [cues |-> <<>>, hasCue |-> FALSE, currentCue |-> none,
                           textBuffer |-> <<>>, wordBuffer |-> <<>>]),
         metadata |-> [NoMetadata EXCEPT !.title = VttTitle(lines, <<>>)]]

Str_ttml == <<"t", "t", "m", "l", "-">>
Str_txt == <<"t", "x", "t", "-">>
Str_json == <<"j", "s", "o", "n", "-">>
Str_json_w == <<"j", "s", "o", "n", "-", "w", "-">>

\* a + b on JavaScript numbers.
Plus(a, b) == IF a = NaN \/ b = NaN THEN NaN ELSE a + b

\* String.prototype.replace(/\s+/g, ' ').
RECURSIVE CollapseSpaces(_)
CollapseSpaces(s) ==
    IF Len(s) = 0 THEN <<>>
    ELSE IF IsSpace(s[1]) THEN <<" ">> \o CollapseSpaces(TrimStart(s))
    ELSE <<s[1]>> \o CollapseSpaces(Tail(s))

\* Element.getAttribute(name) on the text between '<p' and '>': the value of
\* name="...", the empty text when the attribute is absent.
GetAttribute(attrs, name) ==
    LET open == <<" ">> \o name \o <<"=", "\"">>
        i == IndexFrom(attrs, open, 1)
        j == IndexFrom(attrs, <<"\"">>, i + Len(open))
    IN  IF i = 0 \/ j = 0 THEN <<>> ELSE SubSeq(attrs, i + Len(open), j - 1)

\* DOMParser.parseFromString and getElementsByTagName("p"), for the documents
\* of the model: those stringifyTTML writes from cue texts without markup
\* (well-formed, <p> not nested) and texts in which no "<p" occurs (no
\* element p, whatever the parser makes of them).  Each element is
\* [attrs, body]: the text of its start tag and the markup inside it.
RECURSIVE DomParagraphs(_, _)
DomParagraphs(s, from) ==
    LET i == IndexFrom(s, <<"<", "p">>, from)
        isP == i + 2 <= Len(s) /\ s[i + 2] \in {" ", ">"}
        tagEnd == IndexFrom(s, <<">">>, i + 2)
        close == IndexFrom(s, Str_PEnd, tagEnd + 1)
    IN  IF i = 0 THEN <<>>
        ELSE IF ~isP \/ tagEnd = 0 \/ close = 0 THEN DomParagraphs(s, i + 1)
        ELSE <<[attrs |-> SubSeq(s, i + 2, tagEnd - 1),
                body |-> SubSeq(s, tagEnd + 1, close - 1)]>>
             \o DomParagraphs(s, close + Len(Str_PEnd))

\* extractText over the markup inside a <p>: the text nodes, a newline for
\* each <br>, and the text inside every other element (the documents of the
\* model have no metadata, head or style element inside a <p>).
RECURSIVE extractText(_)
extractText(s) ==
    LET i == IndexFrom(s, <<"<">>, 1)
        j == IndexFrom(s, <<">">>, i + 1)
        isBr == j > i + 2 /\ SubSeq(s, i + 1, i + 2) = <<"b", "r">>
    IN  IF i = 0 THEN s
        ELSE IF j = 0 THEN s
        ELSE SubSeq(s, 1, i - 1) \o (IF isBr THEN NL ELSE <<>>)
             \o extractText(SubSeq(s, j + 1, Len(s)))

parseTTML(text) ==
    LET ps == DomParagraphs(text, 1)
        Cue(p, i) ==
            LET begin == GetAttribute(p.attrs, <<"b", "e", "g", "i", "n">>)
                end == GetAttribute(p.attrs, <<"e", "n", "d">>)
                dur == GetAttribute(p.attrs, <<"d", "u", "r">>)
                startMs == timeToMs(IF Len(begin) > 0 THEN begin ELSE <<"0">>)
            IN  [id |-> Str_ttml \o ToStr(i),
                 start |-> startMs,
                 end |-> IF Len(dur) > 0 THEN Plus(startMs, timeToMs(dur))
                         ELSE IF Len(end) > 0 THEN timeToMs(end)
                         ELSE Plus(startMs, 2000),
                 text |-> trim(CollapseSpaces(extractText(p.body))),
                 hasWords |-> FALSE,
                 words |-> <<>>]
    IN  [cues |-> MapIndexed(ps, Cue), metadata |-> NoMetadata]

\* The TXT case of parseContent.
parseTXT(text) ==
    LET lines == SelectSeq(SplitLines(text), LAMBDA l : Len(trim(l)) > 0)
        Cue(l, i) == [id |-> Str_txt \o ToStr(i), start |-> i * 2000,
                      end |-> (i + 1) * 2000, text |-> trim(l),
                      hasWords |-> FALSE, words |-> <<>>]
    IN  [cues |-> MapIndexed(lines, Cue), metadata |-> NoMetadata]

(***************************************************************************)
(* JSON.  A JSON document is modelled by the value JSON.parse returns for  *)
(* it, [t, v]: t its type and v its number, text, sequence of items, or    *)
(* record of fields; JSyntaxError is a text JSON.parse rejects.  In the     *)
(* documents of the model id, text, start and end are numbers, strings,    *)
(* null or absent.                                                         *)
(***************************************************************************)
JUndefined == [t |-> "undefined", v |-> 0]
JNull == [t |-> "null", v |-> 0]
JSyntaxError == [t |-> "syntaxError", v |-> 0]
JNum(n) == [t |-> "num", v |-> n]
JStr(str) == [t |-> "str", v |-> str]
JArr(items) == [t |-> "arr", v |-> items]
JObj(fields) == [t |-> "obj", v |-> fields]

\* x.key
Get(x, key) == IF x.t = "obj" /\ key \in DOMAIN x.v THEN x.v[key] ELSE JUndefined

\* Whether x counts as true in `x || y` and `x ? y : z`.
JTruthy(x) ==
    CASE x.t \in {"undefined", "null"} -> FALSE
      [] x.t = "num" -> Truthy(x.v)
      [] x.t = "str" -> Len(x.v) > 0
      [] OTHER -> TRUE

\* JTime with a numeric text read as a count of milliseconds.
JTime_AsMilliseconds(x) ==
    IF x.t = "num" THEN x.v
    ELSE SuffixMs(ParseFloatMilli(IF JTruthy(x) THEN x.v ELSE <<"0">>), 2)

\* typeof x === 'number' ? x : timeToMs(String(x || '0'))
JTime(x) ==
    IF x.t = "num" THEN x.v
    ELSE timeToMs(IF JTruthy(x) THEN x.v ELSE <<"0">>)

\* x || fallback, for a text.
JText(x, fallback) == IF JTruthy(x) THEN x.v ELSE fallback

\* The object {} returned as metadata by the catch block: no field at all.
EmptyMetadata == << >>

EmptyResult == [cues |-> <<>>, metadata |-> EmptyMetadata]

\* An exception leaving a function in place of its result.
Thrown == [thrown |-> "exception"]

\* Whether the try block of parseJSON throws: JSON.parse rejects the text, or
\* a property is read from null, or map is called on what is no array.
JsonThrows(parsed) ==
    LET cuesField == Get(parsed, "cues")
        cuesRaw == IF parsed.t = "arr" THEN parsed.v
                   ELSE IF JTruthy(cuesField) THEN cuesField.v ELSE <<>>
    IN  \/ parsed.t \in {"syntaxError", "null"}
        \/ parsed.t # "arr" /\ JTruthy(cuesField) /\ cuesField.t # "arr"
        \/ \E i \in 1..Len(cuesRaw) :
              \/ cuesRaw[i].t = "null"
              \/ /\ Get(cuesRaw[i], "words").t = "arr"
                 /\ \E w \in 1..Len(Get(cuesRaw[i], "words").v) :
                       Get(cuesRaw[i], "words").v[w].t = "null"

\* The try block of parseJSON, when nothing in it throws.
parseJSONBody(parsed) ==
    LET cuesField == Get(parsed, "cues")
        cuesRaw == IF parsed.t = "arr" THEN parsed.v
                   ELSE IF JTruthy(cuesField) THEN cuesField.v ELSE <<>>
        md == Get(parsed, "metadata")
        Word(c, i, w, wi) ==
            [id |-> JText(Get(w, "id"), Str_json_w \o ToStr(i) \o <<"-">> \o ToStr(wi)),
             text |-> JText(Get(w, "text"), <<>>),
             start |-> JTime(Get(w, "start")),
             end |-> IF Get(w, "end").t = "num" THEN Get(w, "end").v
                     ELSE IF JTruthy(Get(w, "end")) THEN timeToMs(Get(w, "end").v)
                     ELSE Undefined]
        Cue(c, i) ==
            LET ws == Get(c, "words")
            IN  [id |-> JText(Get(c, "id"), Str_json \o ToStr(i)),
                 start |-> JTime(Get(c, "start")),
                 end |-> JTime(Get(c, "end")),
                 text |-> JText(Get(c, "text"), <<>>),
                 hasWords |-> ws.t = "arr",
                 words |-> IF ws.t = "arr"
                           THEN [k \in 1..Len(ws.v) |-> Word(c, i, ws.v[k], k - 1)]
                           ELSE <<>>]
    IN  [cues |-> MapIndexed(cuesRaw, Cue),
         metadata |->
            IF parsed.t # "arr" /\ JTruthy(md)
            THEN [title |-> JText(Get(md, "title"), <<>>),
                  artist |-> JText(Get(md, "artist"), <<>>),
                  album |-> JText(Get(md, "album"), <<>>),
                  by |-> JText(Get(md, "by"), <<>>)]
            ELSE NoMetadata]

\* parseJSON without its catch block: the exception reaches the caller.
parseJSON_Uncaught(parsed) ==
    IF JsonThrows(parsed) THEN Thrown ELSE parseJSONBody(parsed)

parseJSON(parsed) ==
    IF JsonThrows(parsed) THEN EmptyResult ELSE parseJSONBody(parsed)

\* A number as JSON.stringify writes it and JSON.parse reads it back.
JNumber(n) == IF n = NaN THEN JNull ELSE JNum(n)

\* stringifyJSON: the value of the text JSON.stringify({ metadata, cues }) writes.
stringifyJSON(cueList, metadata) ==
    LET Word(w) ==
            JObj([id |-> JStr(w.id), text |-> JStr(w.text)]
                 @@ (IF w.start = Undefined THEN << >> ELSE [start |-> JNumber(w.start)])
                 @@ (IF w.end = Undefined THEN << >> ELSE [end |-> JNumber(w.end)]))
        Cue(c, i) ==
            JObj([id |-> JStr(c.id), start |-> JNumber(c.start), end |-> JNumber(c.end),
                  text |-> JStr(c.text)]
                 @@ (IF c.hasWords
                     THEN [words |-> JArr([k \in 1..Len(c.words) |-> Word(c.words[k])])]
                     ELSE << >>))
    IN  JObj([metadata |-> JObj([title |-> JStr(metadata.title),
                                 artist |-> JStr(metadata.artist),
                                 album |-> JStr(metadata.album),
                                 by |-> JStr(metadata.by)]),
              cues |-> JArr(MapIndexed(cueList, Cue))])

(***************************************************************************)
(* Public API.                                                             *)
(***************************************************************************)
parseContent(doc, fmt) ==
    CASE fmt \in {"lrc", "lrc_enhanced"} -> parseLRC(doc)
      [] fmt = "srt" -> parseSRT(doc)
      [] fmt = "vtt" -> parseVTT(doc)
      [] fmt = "ttml" -> parseTTML(doc)
      [] fmt = "json" -> parseJSON(doc)
      [] fmt = "txt" -> parseTXT(doc)
      [] OTHER -> parseSRT(doc)

stringifyContent(cueList, fmt, metadata) ==
    CASE fmt = "lrc" -> stringifyLRC(cueList, FALSE, metadata)
      [] fmt = "lrc_enhanced" -> stringifyLRC(cueList, TRUE, metadata)
      [] fmt = "srt" -> stringifySRT(cueList)
      [] fmt = "vtt" -> stringifyVTT(cueList, FALSE, metadata)
      [] fmt = "vtt_karaoke" -> stringifyVTT(cueList, TRUE, metadata)
      [] fmt = "ttml" -> stringifyTTML(cueList, FALSE)
      [] fmt = "ttml_karaoke" -> stringifyTTML(cueList, TRUE)
      [] fmt = "txt" -> stringifyTXT(cueList)
      [] fmt = "json" -> stringifyJSON(cueList, metadata)
      [] OTHER -> stringifySRT(cueList)

(***************************************************************************)
(* Scenario: a millisecond count is encoded and the text decoded again.    *)
(***************************************************************************)
MaxHours == 23
MaxMinutes == 99

HourMs == 3600000
DayMs == 24 * HourMs
LrcLimitMs == 100 * 60000

SrtSamples ==
    { h * HourMs + m * 60000 + s * 1000 + f :
        h \in {0, 1, 9, 10, MaxHours}, m \in {0, 9, 59}, s \in {0, 10, 59},
        f \in {0, 5, 99, 100, 999} }

LrcSamples ==
    { m * 60000 + s * 1000 + f :
        m \in {0, 9, 10, 60, MaxMinutes}, s \in {0, 59},
        f \in {0, 4, 5, 14, 15, 994, 995, 999} }

NoOrigin == [rule |-> "none"]

UiIdle == assistant = <<>> /\ editor = <<>>

CodecIdle == ms = 0 /\ origin = NoOrigin /\ timeStr = <<>> /\ decoded = 0

DocIdle ==
    cues = <<>> /\ format = "none" /\ content = <<>> /\ parseTag = "none" /\ result = <<>>

InitCodec ==
    /\ pc = "start"
    /\ UiIdle
    /\ ms \in SrtSamples \cup LrcSamples
    /\ origin = NoOrigin
    /\ timeStr = <<>>
    /\ decoded = 0
    /\ DocIdle

EncodeSrt ==
    /\ pc = "start"
    /\ timeStr' = msToSrt(ms)
    /\ origin' = [rule |-> "msToSrt"]
    /\ pc' = "encoded"
    /\ UNCHANGED <<ms, decoded>>

EncodeVtt ==
    /\ pc = "start"
    /\ timeStr' = msToVtt(ms)
    /\ origin' = [rule |-> "msToVtt"]
    /\ pc' = "encoded"
    /\ UNCHANGED <<ms, decoded>>

EncodeLrc ==
    /\ pc = "start"
    /\ timeStr' = msToLrc(ms)
    /\ origin' = [rule |-> "msToLrc"]
    /\ pc' = "encoded"
    /\ UNCHANGED <<ms, decoded>>

Decode ==
    /\ pc = "encoded"
    /\ decoded' = timeToMs(timeStr)
    /\ pc' = "decoded"
    /\ UNCHANGED <<ms, origin, timeStr>>

NextCodec ==
    \/ EncodeSrt /\ UNCHANGED <<docVars, uiVars>>
    \/ EncodeVtt /\ UNCHANGED <<docVars, uiVars>>
    \/ EncodeLrc /\ UNCHANGED <<docVars, uiVars>>
    \/ Decode /\ UNCHANGED <<docVars, uiVars>>

SpecCodec == InitCodec /\ [][NextCodec]_vars

\* C1: for every integer ms with 0 <= ms < 24 h, decoding the SRT text and
\* decoding the VTT text of ms both give ms back.
C1_SrtVttRoundTrip ==
    (pc = "decoded" /\ origin.rule \in {"msToSrt", "msToVtt"} /\ ms < DayMs)
        => decoded = ms

C1_Witness ==
    /\ pc = "decoded"
    /\ origin.rule = "msToVtt"
    /\ ms = MaxHours * HourMs + 59 * 60000 + 59 * 1000 + 999
    /\ decoded = ms

\* C2: for every integer ms with 0 <= ms < 6,000,000, decoding the LRC text of
\* ms gives ms rounded to the nearest multiple of 10 ms.
C2_LrcRoundTrip ==
    (pc = "decoded" /\ origin.rule = "msToLrc" /\ ms < LrcLimitMs)
        => decoded = ((ms + 5) \div 10) * 10

(***************************************************************************)
(* Scenario: a timestamp text is typed (in a file or an input field) and   *)
(* decoded.  The text is rendered from the fields in origin, so what the   *)
(* decoder should return is known without parsing.                         *)
(***************************************************************************)
MaxField == 59
MaxCount == 1500

\* The fraction values typed with w digits; the halves and quarters keep the
\* double arithmetic of the suffix and bare rules exact.
FractionsOfWidth(w) ==
    CASE w = 0 -> {0}
      [] w = 1 -> {0, 5}
      [] w = 2 -> {5, 25, 50}
      [] OTHER -> {1, 125, 500}

\* The milliseconds a fraction f typed with w digits stands for.
FractionValue(f, w) ==
    CASE w = 0 -> 0
      [] w = 1 -> f * 100
      [] w = 2 -> f * 10
      [] OTHER -> f

Str_ms == <<"m", "s">>
Str_s == <<"s">>

SuffixMsTexts ==
    { [rule |-> "ms", n |-> n, numeric |-> TRUE, pad |-> pad] :
        n \in {0, 5, 500, MaxCount}, pad \in BOOLEAN }

SuffixSTexts ==
    UNION { { [rule |-> "s", n |-> n, fw |-> w, f |-> f, numeric |-> TRUE, pad |-> FALSE] :
                n \in {0, 10, MaxCount}, f \in FractionsOfWidth(w) } : w \in 0..3 }

LrcTexts ==
    UNION { { [rule |-> "lrc", m |-> m, mw |-> mw, s |-> sec, fw |-> w, f |-> f, pad |-> pad] :
                m \in {0, 7, MaxField}, mw \in 1..2, sec \in {0, MaxField},
                f \in FractionsOfWidth(w), pad \in BOOLEAN } : w \in 0..3 }

FullTexts ==
    UNION { { [rule |-> "full", hours |-> hh, h |-> h, m |-> m, mw |-> mw, s |-> sec,
               sw |-> sw, sep |-> sep, fw |-> w, f |-> f, pad |-> FALSE] :
                hh \in BOOLEAN, h \in {1, 23}, m \in {1, MaxField}, mw \in 1..2,
                sec \in {1, MaxField}, sw \in 1..2, sep \in {".", ","},
                f \in FractionsOfWidth(w) } : w \in 1..3 }

BareTexts ==
    UNION { { [rule |-> "bare", n |-> n, fw |-> w, f |-> f, pad |-> pad] :
                n \in {0, 10, MaxCount}, f \in FractionsOfWidth(w), pad \in BOOLEAN } :
            w \in 0..3 }

\* Texts no rule of the decoder describes.
OtherTexts ==
    { [rule |-> "other", text |-> t] :
        t \in { <<>>, <<" ">>, <<"a", "b", "c">>, <<"1", ":", "2", ":", "3">>,
                <<"1", "2", ":">>, <<"1", "0", "0", ":", "0", "0", ".", "0", "0">>,
                <<"1", "2", ":", "3", "4", ".", "5", "6", "7", "8">>,
                <<"1", ".">>, <<".", "5">>, <<"-", "5">>, <<"-", "-", ">">>,
                <<"s">>, <<"m", "s">>, <<"x", "m", "s">>,
                <<"l", "y", "r", "i", "c", "s">> } }

TypedTexts ==
    SuffixMsTexts \cup SuffixSTexts \cup LrcTexts \cup FullTexts \cup BareTexts
        \cup OtherTexts

Padded(o, t) == IF o.pad THEN <<" ">> \o t \o <<" ", " ">> ELSE t

Decimal(n, f, w) ==
    ToStr(n) \o (IF w = 0 THEN <<>> ELSE <<".">> \o padStart(ToStr(f), w, "0"))

\* The text typed for the fields o.
Render(o) ==
    CASE o.rule = "ms" -> Padded(o, ToStr(o.n) \o Str_ms)
      [] o.rule = "s" -> Decimal(o.n, o.f, o.fw) \o Str_s
      [] o.rule = "lrc" ->
            Padded(o, padStart(ToStr(o.m), o.mw, "0") \o <<":">>
                      \o padStart(ToStr(o.s), 2, "0")
                      \o (IF o.fw = 0 THEN <<>>
                          ELSE <<".">> \o padStart(ToStr(o.f), o.fw, "0")))
      [] o.rule = "full" ->
            (IF o.hours THEN ToStr(o.h) \o <<":">> ELSE <<>>)
            \o padStart(ToStr(o.m), o.mw, "0") \o <<":">>
            \o padStart(ToStr(o.s), o.sw, "0") \o <<o.sep>>
            \o padStart(ToStr(o.f), o.fw, "0")
      [] o.rule = "bare" -> Padded(o, Decimal(o.n, o.f, o.fw))
      [] OTHER -> o.text

InitDecode ==
    /\ pc = "encoded"
    /\ UiIdle
    /\ ms = 0
    /\ origin \in TypedTexts
    /\ timeStr = Render(origin)
    /\ decoded = 0
    /\ DocIdle

NextDecode == Decode /\ UNCHANGED <<docVars, uiVars>>

SpecDecode == InitDecode /\ [][NextDecode]_vars

\* C8: timeToMs is total: it returns a number of milliseconds for every text,
\* never NaN, and 0 for every text that is not a parseable timestamp.
C8_DecoderTotal ==
    pc = "decoded" =>
        /\ decoded # NaN
        /\ origin.rule = "other" => decoded = 0

\* C9: the rules apply in priority order: "<number>ms" gives the number,
\* "<number>s" the number times 1000, M:SS(.f) and (H:)M:S[.,]f the sum of
\* their fields, a 1-digit fraction counting x100, a 2-digit one x10 and a
\* 3-digit one x1.
C9_DecodeRules ==
    pc = "decoded" =>
        /\ origin.rule = "ms" => decoded = origin.n
        /\ origin.rule = "s" =>
              decoded = origin.n * 1000 + FractionValue(origin.f, origin.fw)
        /\ origin.rule = "lrc" =>
              decoded = origin.m * 60000 + origin.s * 1000
                        + FractionValue(origin.f, origin.fw)
        /\ origin.rule = "full" =>
              decoded = (IF origin.hours THEN origin.h ELSE 0) * 3600000
                        + origin.m * 60000 + origin.s * 1000
                        + FractionValue(origin.f, origin.fw)

\* "01:01:01,001" has been decoded to 3,661,001 and "500ms" to 500.
C9_Witness ==
    /\ pc = "decoded"
    /\ \/ /\ timeStr = <<"1", ":", "0", "1", ":", "0", "1", ",", "0", "0", "1">>
          /\ decoded = 3661001
       \/ /\ timeStr = <<"5", "0", "0", "m", "s">>
          /\ decoded = 500

(***************************************************************************)
(* Scenario: the editor exports a cue list with stringifyContent and loads *)
(* the document again with parseContent.                                   *)
(***************************************************************************)
MaxCues == 2

Txt_Hi == <<"H", "i">>

CueTexts ==
    { <<>>, Txt_Hi, Txt_Hi \o NL \o <<"y", "o">>, <<" ">> \o Txt_Hi,
      <<"<", "i", ">">> \o Txt_Hi \o <<"<", "/", "i", ">">> }

PlainCue(start, end, text) ==
    [id |-> <<"c">>, start |-> start, end |-> end, text |-> text,
     hasWords |-> FALSE, words |-> <<>>]

\* A cue "x y" from 1000 to 3000 whose words start at s1 and s2.
WordCue(s1, s2) ==
    [id |-> <<"c">>, start |-> 1000, end |-> 3000, text |-> <<"x", " ", "y">>,
     hasWords |-> TRUE,
     words |-> <<[id |-> <<"w", "1">>, text |-> <<"x">>, start |-> s1, end |-> Undefined],
                 [id |-> <<"w", "2">>, text |-> <<"y">>, start |-> s2, end |-> Undefined]>>]

CueSamples ==
    { PlainCue(0, 1000, t) : t \in CueTexts }
        \cup { PlainCue(1000, 3500, Txt_Hi), WordCue(1000, 1504), WordCue(0, 1500) }

CueLists == UNION { [1..n -> CueSamples] : n \in 0..MaxCues }

Metadatas == { NoMetadata, [NoMetadata EXCEPT !.title = <<"T">>] }

\* The tags a document written for format f is loaded with: f and the tags
\* of the same family.
TagsFor(f) ==
    CASE f \in {"lrc", "lrc_enhanced"} -> {"lrc", "lrc_enhanced"}
      [] f \in {"vtt", "vtt_karaoke"} -> {"vtt", "vtt_karaoke"}
      [] f \in {"ttml", "ttml_karaoke"} -> {"ttml", "ttml_karaoke"}
      [] OTHER -> {f}

InitDocs ==
    /\ pc = "start"
    /\ UiIdle
    /\ cues \in CueLists
    /\ format = "none"
    /\ content = <<>>
    /\ parseTag = "none"
    /\ result = EmptyResult
    /\ CodecIdle

StringifyContent ==
    /\ pc = "start"
    /\ \E f \in Formats, metadata \in Metadatas :
          /\ content' = stringifyContent(cues, f, metadata)
          /\ format' = f
    /\ pc' = "stringified"
    /\ UNCHANGED <<cues, parseTag, result>>

ParseContent ==
    /\ pc = "stringified"
    /\ \E g \in TagsFor(format) :
          /\ result' = parseContent(content, g)
          /\ parseTag' = g
    /\ pc' = "parsed"
    /\ UNCHANGED <<cues, format, content>>

NextDocs ==
    \/ StringifyContent /\ UNCHANGED <<codecVars, uiVars>>
    \/ ParseContent /\ UNCHANGED <<codecVars, uiVars>>

SpecDocs == InitDocs /\ [][NextDocs]_vars

\* The parsed cues are as many as the cues written, with the same texts in order.
SameTexts(out, in) ==
    /\ Len(out) = Len(in)
    /\ \A i \in 1..Len(in) : out[i].text = in[i].text

\* C3: writing any cue list as SRT and parsing it as SRT gives the same number
\* of cues, in the same order, each with the text of the cue written.
C3_SrtRoundTrip ==
    (pc = "parsed" /\ format = "srt" /\ parseTag = "srt") => SameTexts(result.cues, cues)

\* C4: writing any cue list as VTT (with metadata) and parsing it as VTT gives
\* the same number of cues, in the same order, each with the text written.
C4_VttRoundTrip ==
    (pc = "parsed" /\ format = "vtt" /\ parseTag = "vtt") => SameTexts(result.cues, cues)

\* C5: writing any cue list as LRC (with metadata) and parsing it as LRC gives
\* the same number of cues, in the same order, each with the text written.
C5_LrcRoundTrip ==
    (pc = "parsed" /\ format = "lrc" /\ parseTag = "lrc") => SameTexts(result.cues, cues)

\* Every cue has a non-empty words list with a start on every word.
AllWordsTimed(cueList) ==
    \A i \in 1..Len(cueList) :
        /\ cueList[i].hasWords
        /\ Len(cueList[i].words) > 0
        /\ \A k \in 1..Len(cueList[i].words) : cueList[i].words[k].start # Undefined

\* The word start a timestamp of format f keeps.
AtPrecision(f, t) == IF f = "lrc_enhanced" THEN RoundDiv10(t) * 10 ELSE t

\* C6: for F in {LRC_ENHANCED, VTT_KARAOKE}, writing cues whose words all have
\* a start as F and parsing the document as F gives cues whose words lists
\* have the same length, the same texts and the same starts (at the precision
\* of F's timestamps).
C6_WordRoundTrip ==
    (/\ pc = "parsed"
     /\ format \in {"lrc_enhanced", "vtt_karaoke"}
     /\ parseTag = format
     /\ AllWordsTimed(cues))
        => /\ Len(result.cues) = Len(cues)
           /\ \A i \in 1..Len(cues) :
                 /\ Len(result.cues[i].words) = Len(cues[i].words)
                 /\ \A k \in 1..Len(cues[i].words) :
                       /\ result.cues[i].words[k].text = cues[i].words[k].text
                       /\ result.cues[i].words[k].start
                             = AtPrecision(format, cues[i].words[k].start)

\* The base format of a tag.
BaseFormat(f) ==
    CASE f = "lrc_enhanced" -> "lrc"
      [] f = "vtt_karaoke" -> "vtt"
      [] f = "ttml_karaoke" -> "ttml"
      [] OTHER -> f

\* C7: parseContent gives for LRC_ENHANCED, VTT_KARAOKE and TTML_KARAOKE what
\* it gives for LRC, VTT and TTML on the same content.
C7_VariantsShareParser ==
    pc = "parsed" => result = parseContent(content, BaseFormat(parseTag))

(***************************************************************************)
(* Scenario: a JSON document written by another tool, one of whose times   *)
(* is a JSON number or a bare numeric string, is loaded with parseContent. *)
(***************************************************************************)
JsonPlaces == {"cue.start", "cue.end", "word.start", "word.end"}

JsonOrigins ==
    { [rule |-> "json", where |-> p, kind |-> "number", n |-> n, fw |-> 0, f |-> 0] :
        p \in JsonPlaces, n \in {0, 10, MaxCount} }
    \cup UNION { { [rule |-> "json", where |-> p, kind |-> "string", n |-> n, fw |-> w, f |-> f] :
                    p \in JsonPlaces, n \in {0, 10, MaxCount}, f \in FractionsOfWidth(w) } :
                 w \in 0..3 }

\* The value of JSON.parse on the document: one cue with one word, the time
\* at o.where written as o says, the other times as numbers.
JsonDoc(o) ==
    LET Time(place, other) ==
            IF o.where # place THEN JNum(other)
            ELSE IF o.kind = "number" THEN JNum(o.n)
            ELSE JStr(Decimal(o.n, o.f, o.fw))
        word == JObj([id |-> JStr(<<"w", "1">>), text |-> JStr(Txt_Hi),
                      start |-> Time("word.start", 1000), end |-> Time("word.end", 2000)])
    IN  JObj([cues |-> JArr(<<JObj([id |-> JStr(<<"c">>), text |-> JStr(Txt_Hi),
                                     start |-> Time("cue.start", 1000),
                                     end |-> Time("cue.end", 3000),
                                     words |-> JArr(<<word>>)])>>)])

InitJson ==
    /\ pc = "stringified"
    /\ UiIdle
    /\ origin \in JsonOrigins
    /\ ms = 0
    /\ timeStr = <<>>
    /\ decoded = 0
    /\ cues = <<>>
    /\ format = "json"
    /\ content = JsonDoc(origin)
    /\ parseTag = "none"
    /\ result = EmptyResult

NextJson == ParseContent /\ UNCHANGED <<codecVars, uiVars>>

SpecJson == InitJson /\ [][NextJson]_vars

\* The time the parsed document has at a place.
TimeAt(parsed, place) ==
    CASE place = "cue.start" -> parsed.cues[1].start
      [] place = "cue.end" -> parsed.cues[1].end
      [] place = "word.start" -> parsed.cues[1].words[1].start
      [] OTHER -> parsed.cues[1].words[1].end

\* C10: timeToMs decodes a bare numeric text (digits, optional decimal part)
\* as seconds, value * 1000; so a cue or word start/end given in JSON as a
\* numeric string is loaded as 1000 times its value, and one given as a JSON
\* number is kept as it is.
C10_NumericStringIsSeconds ==
    (pc = "parsed" /\ origin.rule = "json") =>
        /\ Len(result.cues) = 1
        /\ origin.kind = "string" =>
              /\ timeToMs(Decimal(origin.n, origin.f, origin.fw))
                    = origin.n * 1000 + FractionValue(origin.f, origin.fw)
              /\ TimeAt(result, origin.where)
                    = origin.n * 1000 + FractionValue(origin.f, origin.fw)
        /\ origin.kind = "number" => TimeAt(result, origin.where) = origin.n

\* The cue start "1500" has been loaded as 1,500,000 ms.
C10_Witness ==
    /\ pc = "parsed"
    /\ origin = [rule |-> "json", where |-> "cue.start", kind |-> "string",
                 n |-> MaxCount, fw |-> 0, f |-> 0]
    /\ Get(Get(content, "cues").v[1], "start") = JStr(ToStr(MaxCount))
    /\ result.cues[1].start = MaxCount * 1000

(***************************************************************************)
(* Scenario: millisecond counts up to several hundred hours are encoded.   *)
(***************************************************************************)
MaxLongHours == 500

LongSamples ==
    { 0, 999, 1000, 59999, 60000, HourMs - 1, HourMs, HourMs + 61001,
      10 * HourMs, DayMs - 1, DayMs, DayMs + 1, DayMs + HourMs + 61001,
      99 * HourMs + 3599999, 100 * HourMs, 100 * HourMs + 3599999,
      MaxLongHours * HourMs, MaxLongHours * HourMs + 3599999 }

InitEncode ==
    /\ pc = "start"
    /\ UiIdle
    /\ ms \in LongSamples
    /\ origin = NoOrigin
    /\ timeStr = <<>>
    /\ decoded = 0
    /\ DocIdle

SpecEncode == InitEncode /\ [][NextCodec]_vars

\* The number of decimal digits of n < 10000.
DigitsOf(n) == IF n < 10 THEN 1 ELSE IF n < 100 THEN 2 ELSE IF n < 1000 THEN 3 ELSE 4

\* The number the digits of t from index i to index j stand for; -1 when one
\* of them is no digit.
FieldValue(t, i, j) ==
    IF \A k \in i..j : k <= Len(t) /\ IsDigit(t[k]) THEN parseInt(SubSeq(t, i, j)) ELSE -1

\* C11: msToSrt(ms) is HH:MM:SS,mmm with HH = floor(ms / 3,600,000) in at
\* least two digits, MM = floor((ms mod 3,600,000) / 60,000) in 00..59,
\* SS = floor((ms mod 60,000) / 1000) in 00..59 and mmm = ms mod 1000; msToVtt
\* has '.' for ','; msToSrt(3,661,001) = '01:01:01,001'.
C11_EncodedFields ==
    (pc = "encoded" /\ origin.rule \in {"msToSrt", "msToVtt"}) =>
        LET hours == ms \div 3600000
            w == IF hours < 100 THEN 2 ELSE DigitsOf(hours)
        IN  /\ Len(timeStr) = w + 10
            /\ FieldValue(timeStr, 1, w) = hours
            /\ timeStr[w + 1] = ":"
            /\ FieldValue(timeStr, w + 2, w + 3) = (ms % 3600000) \div 60000
            /\ FieldValue(timeStr, w + 2, w + 3) \in 0..59
            /\ timeStr[w + 4] = ":"
            /\ FieldValue(timeStr, w + 5, w + 6) = (ms % 60000) \div 1000
            /\ FieldValue(timeStr, w + 5, w + 6) \in 0..59
            /\ timeStr[w + 7] = (IF origin.rule = "msToSrt" THEN "," ELSE ".")
            /\ FieldValue(timeStr, w + 8, w + 10) = ms % 1000
            /\ (ms = 3661001 /\ origin.rule = "msToSrt") =>
                  timeStr = <<"0", "1", ":", "0", "1", ":", "0", "1", ",", "0", "0", "1">>

\* 3,661,001 ms has been written as '01:01:01,001'.
C11_Witness ==
    /\ pc = "encoded"
    /\ origin.rule = "msToSrt"
    /\ ms = 3661001
    /\ timeStr = <<"0", "1", ":", "0", "1", ":", "0", "1", ",", "0", "0", "1">>

\* 100 hours or more have been written with a three-digit hour field.
C11_WitnessLong ==
    /\ pc = "encoded"
    /\ origin.rule = "msToVtt"
    /\ ms = MaxLongHours * HourMs + 3599999
    /\ Len(timeStr) = 13

(***************************************************************************)
(* Format detection (subtitleParser.ts, detectFormat).                     *)
(***************************************************************************)
Str_TtmlNamespace ==
    <<"h", "t", "t", "p", ":", "/", "/", "w", "w", "w", ".", "w", "3", ".", "o", "r", "g", "/", "n", "s", "/", "t", "t", "m", "l">>

\* /^\[\d{2}:\d{2}\.\d{2}\]/.test(s)
LrcHeadMatch(s) ==
    /\ Len(s) >= 10
    /\ s[1] = "[" /\ IsDigit(s[2]) /\ IsDigit(s[3]) /\ s[4] = ":"
    /\ IsDigit(s[5]) /\ IsDigit(s[6]) /\ s[7] = "."
    /\ IsDigit(s[8]) /\ IsDigit(s[9]) /\ s[10] = "]"

\* The fallback content checks of detectFormat.
SniffContent(text, trimmed) ==
    IF startsWith(trimmed, <<"{">>) \/ startsWith(trimmed, <<"[">>) THEN "json"
    ELSE IF startsWith(trimmed, Str_WEBVTT) THEN "vtt"
    ELSE IF includes(text, Str_TtmlNamespace) THEN "ttml"
    ELSE IF LrcHeadMatch(text) THEN "lrc"
    ELSE "srt"

\* detectFormat with the content checks made before the extension checks.
detectFormat_ContentFirst(filename, text) ==
    IF SniffContent(text, trim(text)) # "srt" THEN SniffContent(text, trim(text))
    ELSE IF endsWith(filename, <<".", "l", "r", "c">>) THEN "lrc"
    ELSE IF endsWith(filename, <<".", "s", "r", "t">>) THEN "srt"
    ELSE IF endsWith(filename, <<".", "v", "t", "t">>) THEN "vtt"
    ELSE IF endsWith(filename, <<".", "x", "m", "l">>) \/ endsWith(filename, <<".", "t", "t", "m", "l">>) THEN "ttml"
    ELSE IF endsWith(filename, <<".", "j", "s", "o", "n">>) THEN "json"
    ELSE IF endsWith(filename, <<".", "t", "x", "t">>) THEN "txt"
    ELSE "srt"

detectFormat(filename, text) ==
    IF endsWith(filename, <<".", "l", "r", "c">>) THEN "lrc"
    ELSE IF endsWith(filename, <<".", "s", "r", "t">>) THEN "srt"
    ELSE IF endsWith(filename, <<".", "v", "t", "t">>) THEN "vtt"
    ELSE IF endsWith(filename, <<".", "x", "m", "l">>) \/ endsWith(filename, <<".", "t", "t", "m", "l">>) THEN "ttml"
    ELSE IF endsWith(filename, <<".", "j", "s", "o", "n">>) THEN "json"
    ELSE IF endsWith(filename, <<".", "t", "x", "t">>) THEN "txt"
    ELSE SniffContent(text, trim(text))

(***************************************************************************)
(* Scenario: a file is opened and its format detected from its name and    *)
(* its content.                                                            *)
(***************************************************************************)
FileStems == { <<"a">>, <<"s", "o", "n", "g", ".", "s", "r", "t">> }

FileExtensions ==
    { <<>>, <<".", "l", "r", "c">>, <<".", "s", "r", "t">>, <<".", "v", "t", "t">>, <<".", "x", "m", "l">>, <<".", "t", "t", "m", "l">>, <<".", "j", "s", "o", "n">>, <<".", "t", "x", "t">>,
      <<".", "L", "R", "C">>, <<".", "b", "a", "k">>, <<".", "l", "r", "c", " ">> }

FileContents ==
    { <<>>,
      <<"H", "e", "l", "l", "o">>,
      <<"[", "0", "0", ":", "1", "2", ".", "3", "4", "]", "H", "e", "l", "l", "o">>,
      <<"[", "t", "i", ":", "T", "]", "\n", "[", "0", "0", ":", "1", "2", ".", "3", "4", "]", "H", "e", "l", "l", "o">>,
      <<"\n", "[", "0", "0", ":", "1", "2", ".", "3", "4", "]", "H", "e", "l", "l", "o">>,
      <<"{", "\"", "c", "u", "e", "s", "\"", ":", "[", "]", "}">>,
      <<"W", "E", "B", "V", "T", "T", "\n", "\n", "0", "0", ":", "0", "0", ":", "0", "1", ".", "0", "0", "0", " ", "-", "-", ">", " ", "0", "0", ":", "0", "0", ":", "0", "2", ".", "0", "0", "0", "\n", "H", "e", "l", "l", "o", "\n">>,
      <<"1", "\n", "0", "0", ":", "0", "0", ":", "0", "1", ",", "0", "0", "0", " ", "-", "-", ">", " ", "0", "0", ":", "0", "0", ":", "0", "2", ",", "0", "0", "0", "\n", "H", "e", "l", "l", "o", "\n">>,
      Str_TtmlHead \o Str_TtmlFoot }

InitDetect ==
    /\ pc = "opened"
    /\ UiIdle
    /\ origin \in { [rule |-> "file", filename |-> stem \o ext] :
                      stem \in FileStems, ext \in FileExtensions }
    /\ content \in FileContents
    /\ format = "none"
    /\ ms = 0
    /\ timeStr = <<>>
    /\ decoded = 0
    /\ cues = <<>>
    /\ parseTag = "none"
    /\ result = EmptyResult

DetectFormat ==
    /\ pc = "opened"
    /\ format' = detectFormat(origin.filename, content)
    /\ pc' = "detected"
    /\ UNCHANGED <<ms, origin, timeStr, decoded, cues, content, parseTag, result>>

NextDetect == DetectFormat /\ UNCHANGED uiVars

SpecDetect == InitDetect /\ [][NextDetect]_vars

\* The format the specification assigns to a file name with a known
\* extension, "none" to every other file name.
FormatOfExtension(filename) ==
    CASE endsWith(filename, <<".", "l", "r", "c">>) -> "lrc"
      [] endsWith(filename, <<".", "s", "r", "t">>) -> "srt"
      [] endsWith(filename, <<".", "v", "t", "t">>) -> "vtt"
      [] endsWith(filename, <<".", "x", "m", "l">>) -> "ttml"
      [] endsWith(filename, <<".", "t", "t", "m", "l">>) -> "ttml"
      [] endsWith(filename, <<".", "j", "s", "o", "n">>) -> "json"
      [] endsWith(filename, <<".", "t", "x", "t">>) -> "txt"
      [] OTHER -> "none"

\* C12: for every file name ending in .lrc, .srt, .vtt, .xml, .ttml, .json or
\* .txt, detectFormat gives LRC, SRT, VTT, TTML, TTML, JSON or TXT, whatever
\* the content is.
C12_ExtensionFirst ==
    (pc = "detected" /\ FormatOfExtension(origin.filename) # "none")
        => format = FormatOfExtension(origin.filename)

\* 'a.lrc' with the content of a WEBVTT file has been detected as LRC.
C12_Witness ==
    /\ pc = "detected"
    /\ origin.filename = <<"a", ".", "l", "r", "c">>
    /\ startsWith(content, Str_WEBVTT)
    /\ format = "lrc"

\* C13: when the file name has no known extension and the content begins
\* with a bracketed MM:SS.cc timestamp, detectFormat gives LRC.
C13_LrcSniffed ==
    (pc = "detected" /\ FormatOfExtension(origin.filename) = "none"
     /\ LrcHeadMatch(content))
        => format = "lrc"

(***************************************************************************)
(* Scenario: an SRT document made of well-formed and malformed blocks is   *)
(* loaded with parseContent.                                               *)
(***************************************************************************)
MaxBlocks == 2

\* A well-formed block: an optional index line, a time line, text lines.
CueBlock(indexed, start, end, text) ==
    [kind |-> "cue", indexed |-> indexed, start |-> start, end |-> end, text |-> text]

\* A block without a valid '-->' line.
JunkBlock(text) == [kind |-> "junk", text |-> text]

SrtBlocks ==
    { CueBlock(TRUE, 1000, 2000, <<"H", "e", "l", "l", "o">>),
      CueBlock(FALSE, 1000, 2000, <<"H", "e", "l", "l", "o", "\n", "w", "o", "r", "l", "d">>),
      CueBlock(TRUE, 61001, 3661001, <<" ", "H", "i">>),
      CueBlock(FALSE, 61001, 3661001, <<"H", "e", "l", "l", "o">>),
      JunkBlock(<<"j", "u", "n", "k">>),
      JunkBlock(<<"7", "\n", "n", "o", " ", "a", "r", "r", "o", "w", "\n", "H", "e", "l", "l", "o">>),
      JunkBlock(<<"a", " ", "-", "-", ">", " ", "b", " ", "-", "-", ">", " ", "c", "\n", "H", "e", "l", "l", "o">>) }

\* Where a document has one blank line more than the separator of its blocks.
ExtraBlankLines == {"none", "before", "between", "after"}

\* The text of block b at place i (1-based) of a document, ending in '\n'.
SrtBlockText(b, i) ==
    IF b.kind = "junk" THEN b.text \o NL
    ELSE (IF b.indexed THEN ToStr(i) \o NL ELSE <<>>)
         \o msToSrt(b.start) \o Str_Arrow \o msToSrt(b.end) \o NL \o b.text \o NL

SrtDocument(o) ==
    (IF o.extra = "before" THEN NL ELSE <<>>)
    \o join(MapIndexed(o.blocks, LAMBDA b, i : SrtBlockText(b, i + 1)),
            IF o.extra = "between" THEN <<"\n", "\n">> ELSE NL)
    \o (IF o.extra = "after" THEN NL ELSE <<>>)

InitSrt ==
    /\ pc = "stringified"
    /\ UiIdle
    /\ origin \in { [rule |-> "srt", blocks |-> bs, extra |-> e] :
                      bs \in UNION { [1..n -> SrtBlocks] : n \in 0..MaxBlocks },
                      e \in ExtraBlankLines }
    /\ content = SrtDocument(origin)
    /\ format = "srt"
    /\ ms = 0
    /\ timeStr = <<>>
    /\ decoded = 0
    /\ cues = <<>>
    /\ parseTag = "none"
    /\ result = EmptyResult

NextSrt == ParseContent /\ UNCHANGED <<codecVars, uiVars>>

SpecSrt == InitSrt /\ [][NextSrt]_vars

\* The well-formed blocks of a document, in document order.
WellFormed(blocks) == SelectSeq(blocks, LAMBDA b : b.kind = "cue")

\* The cues are the given blocks, in order: start, end and text.
CuesAreBlocks(cueList, blocks) ==
    /\ Len(cueList) = Len(blocks)
    /\ \A i \in 1..Len(blocks) :
          /\ cueList[i].start = blocks[i].start
          /\ cueList[i].end = blocks[i].end
          /\ cueList[i].text = blocks[i].text

\* C14: parseContent(content, SRT) turns each block [optional all-digit index
\* line] / 'start --> end' / text lines into one cue with the start and end
\* of the two sides of '-->' and the text lines joined by newlines; the index
\* line is discarded; '1\n00:00:01,000 --> 00:00:02,000\nHello\n\n' gives
\* exactly one cue with start 1000, end 2000, text 'Hello'.
C14_SrtBlocksToCues ==
    (/\ pc = "parsed"
     /\ origin.rule = "srt"
     /\ origin.extra \in {"none", "after"}
     /\ WellFormed(origin.blocks) = origin.blocks)
        => CuesAreBlocks(result.cues, origin.blocks)

\* '1\n00:00:01,000 --> 00:00:02,000\nHello\n\n' has been parsed to one cue
\* with start 1000, end 2000 and text 'Hello'.
C14_Witness ==
    /\ pc = "parsed"
    /\ content = <<"1", "\n", "0", "0", ":", "0", "0", ":", "0", "1", ",", "0", "0", "0", " ", "-", "-", ">", " ", "0", "0", ":", "0", "0", ":", "0", "2", ",", "0", "0", "0", "\n", "H", "e", "l", "l", "o", "\n", "\n">>
    /\ Len(result.cues) = 1
    /\ result.cues[1].start = 1000
    /\ result.cues[1].end = 2000
    /\ result.cues[1].text = <<"H", "e", "l", "l", "o">>

\* C15: for every document, the cues parseContent(content, SRT) returns are
\* exactly the well-formed blocks in document order, whatever malformed
\* blocks or additional blank lines are before, between or after them.
C15_MalformedBlocksDropped ==
    (pc = "parsed" /\ origin.rule = "srt")
        => CuesAreBlocks(result.cues, WellFormed(origin.blocks))

(***************************************************************************)
(* Scenario: cues with non-empty one-line texts and chosen gaps between    *)
(* them are exported.                                                      *)
(***************************************************************************)
MaxLines == 3

LineTexts == { <<"H", "e", "l", "l", "o">>, <<"y", "o">> }

LineGaps == {0, 1999, 2000, 2500}

\* The start of cue i when every cue lasts 1000 ms and gaps[k] lies between
\* the end of cue k and the start of cue k + 1.
RECURSIVE StartAfterGaps(_, _)
StartAfterGaps(gaps, i) ==
    IF i = 1 THEN 0 ELSE StartAfterGaps(gaps, i - 1) + 1000 + gaps[i - 1]

GappedCues(o) ==
    [i \in 1..Len(o.texts) |->
        PlainCue(StartAfterGaps(o.gaps, i), StartAfterGaps(o.gaps, i) + 1000, o.texts[i])]

InitTxt ==
    /\ pc = "start"
    /\ UiIdle
    /\ origin \in UNION { { [rule |-> "txt", texts |-> ts, gaps |-> gs] :
                              ts \in [1..n -> LineTexts], gs \in [1..(n - 1) -> LineGaps] } :
                          n \in 1..MaxLines }
    /\ cues = GappedCues(origin)
    /\ format = "none"
    /\ content = <<>>
    /\ parseTag = "none"
    /\ result = EmptyResult
    /\ ms = 0
    /\ timeStr = <<>>
    /\ decoded = 0

NextTxt == StringifyContent /\ UNCHANGED <<codecVars, uiVars>>

SpecTxt == InitTxt /\ [][NextTxt]_vars

\* The lines the specification gives the TXT export: every text, and one
\* empty line after a text whose cue ends 2000 ms or more before the next.
TxtLines(cueList) ==
    Flatten([i \in 1..Len(cueList) |->
                IF i < Len(cueList) /\ cueList[i + 1].start - cueList[i].end >= 2000
                THEN <<cueList[i].text, <<>>>>
                ELSE <<cueList[i].text>>])

\* C17: stringifyContent(cues, TXT) writes the cue texts in order, one per
\* line, with exactly one blank line between cues i and i+1 when
\* cues[i+1].start - cues[i].end >= 2000 and none when the gap is 1999 or less.
C17_StanzaBreaks ==
    (pc = "stringified" /\ format = "txt" /\ origin.rule = "txt")
        => split(content, NL) = TxtLines(cues)

\* A cue ending at 1000 and a cue starting at 3500 (gap 2500) have been
\* written with one blank line between them.
C17_Witness ==
    /\ pc = "stringified"
    /\ format = "txt"
    /\ Len(cues) = 2
    /\ cues[1].end = 1000
    /\ cues[2].start = 3500
    /\ content = cues[1].text \o <<"\n", "\n">> \o cues[2].text

\* Two cues 1999 ms apart have been written on consecutive lines.
C17_WitnessNoBreak ==
    /\ pc = "stringified"
    /\ format = "txt"
    /\ Len(cues) = 2
    /\ cues[2].start - cues[1].end = 1999
    /\ content = cues[1].text \o NL \o cues[2].text


(***************************************************************************)
(* The AI assistant dialog (AIAssistant): handleAction and the setters of  *)
(* its form.  The timeline it is given is the variable cues; the two AI    *)
(* calls are requests that later resolve with some cue list or reject.     *)
(* The calls made on the props onApply and onClose are recorded.           *)
(***************************************************************************)

\* The merge of the 'generate' branch without its shift.
mergeGenerated_Unshifted(existing, newCues) == existing \o newCues

\* handleAction, the 'generate' branch: append after the last cue's end.
mergeGenerated(existing, newCues) ==
    IF Len(existing) = 0
    THEN newCues
    ELSE LET lastEnd == existing[Len(existing)].end
         IN  existing \o [i \in 1..Len(newCues) |->
                 [newCues[i] EXCEPT !.start = lastEnd + newCues[i].start,
                                    !.end = lastEnd + newCues[i].end]]

MaxRequests == 2
MaxGenerated == 2

Txt_La == <<"l", "a">>

Prompts == {<<>>, <<" ">>, Txt_La}

Modes == {"generate", "refine"}

NoRequest == [mode |-> "none", cues |-> <<>>]

\* The timelines the dialog is opened on (the last cue need not end last).
Timelines ==
    {<<>>,
     <<PlainCue(0, 1000, Txt_Hi)>>,
     <<PlainCue(0, 1000, Txt_Hi), PlainCue(1000, 3500, Txt_La)>>,
     <<PlainCue(1000, 3500, Txt_La), PlainCue(0, 1000, Txt_Hi)>>}

\* What generateLyrics may resolve with: cues timed from 0.
GeneratedCues == {PlainCue(0, 2000, Txt_La), PlainCue(2500, 4000, Txt_Hi), WordCue(1000, 1504)}

GeneratedLists ==
    {<<>>} \cup UNION {[1..n -> GeneratedCues] : n \in 1..MaxGenerated}

\* What refineLyrics may resolve with for the list it was given.
RefinedLists(list) ==
    {list, [i \in 1..Len(list) |-> [list[i] EXCEPT !.text = Txt_La]]}

InitAssistant ==
    /\ pc = "open"
    /\ cues \in Timelines
    /\ assistant = [mode |-> "refine", prompt |-> <<>>, isLoading |-> FALSE,
                    request |-> NoRequest, requests |-> 0, response |-> NoRequest,
                    applied |-> <<>>, closed |-> 0, alerts |-> 0]
    /\ format = "srt"
    /\ content = <<>>
    /\ parseTag = "srt"
    /\ result = EmptyResult
    /\ editor = <<>>
    /\ CodecIdle

SetMode(m) ==
    /\ pc = "open"
    /\ assistant' = [assistant EXCEPT !.mode = m]
    /\ UNCHANGED <<pc, codecVars, docVars, editor>>

SetPrompt(p) ==
    /\ pc = "open"
    /\ assistant' = [assistant EXCEPT !.prompt = p]
    /\ UNCHANGED <<pc, codecVars, docVars, editor>>

\* handleAction up to its await: a blank prompt returns at once.
HandleAction ==
    /\ pc = "open"
    /\ ~assistant.isLoading
    /\ assistant.requests < MaxRequests
    /\ IF trim(assistant.prompt) = <<>>
       THEN UNCHANGED assistant
       ELSE assistant' = [assistant EXCEPT
                !.isLoading = TRUE,
                !.requests = @ + 1,
                !.request = [mode |-> assistant.mode, cues |-> cues]]
    /\ UNCHANGED <<pc, codecVars, docVars, editor>>

\* handleAction after generateLyrics resolved with newCues.
GenerateResolves ==
    /\ pc = "open"
    /\ assistant.request.mode = "generate"
    /\ \E newCues \in GeneratedLists :
           assistant' = [assistant EXCEPT
               !.response = [mode |-> "generate", cues |-> newCues],
               !.applied = Append(@, mergeGenerated(assistant.request.cues, newCues)),
               !.closed = @ + 1,
               !.isLoading = FALSE,
               !.request = NoRequest]
    /\ pc' = "closed"
    /\ UNCHANGED <<codecVars, docVars, editor>>

\* handleAction after refineLyrics resolved.
RefineResolves ==
    /\ pc = "open"
    /\ assistant.request.mode = "refine"
    /\ \E refined \in RefinedLists(assistant.request.cues) :
           assistant' = [assistant EXCEPT
               !.response = [mode |-> "refine", cues |-> refined],
               !.applied = Append(@, refined),
               !.closed = @ + 1,
               !.isLoading = FALSE,
               !.request = NoRequest]
    /\ pc' = "closed"
    /\ UNCHANGED <<codecVars, docVars, editor>>

\* handleAction without its finally block, after the AI call rejected.
RequestRejects_NoFinally ==
    /\ pc = "open"
    /\ assistant.request.mode # "none"
    /\ assistant' = [assistant EXCEPT
           !.alerts = @ + 1,
           !.request = NoRequest]
    /\ UNCHANGED <<pc, codecVars, docVars, editor>>

\* handleAction after the AI call rejected: catch, then finally.
RequestRejects ==
    /\ pc = "open"
    /\ assistant.request.mode # "none"
    /\ assistant' = [assistant EXCEPT
           !.alerts = @ + 1,
           !.isLoading = FALSE,
           !.request = NoRequest]
    /\ UNCHANGED <<pc, codecVars, docVars, editor>>

NextAssistant ==
    \/ \E m \in Modes : SetMode(m)
    \/ \E p \in Prompts : SetPrompt(p)
    \/ HandleAction
    \/ GenerateResolves
    \/ RefineResolves
    \/ RequestRejects

SpecAssistant == InitAssistant /\ [][NextAssistant]_vars

\* The list handed to onApply by the last 'generate' request, and its inputs.
GeneratedApplied ==
    /\ assistant # <<>>
    /\ assistant.response.mode = "generate"
    /\ assistant.applied # <<>>

\* C18: when generation resolves on a non-empty timeline, onApply receives
\* the existing cues unchanged and in order, followed by the generated cues
\* each shifted by the end of the last existing cue, so every generated cue
\* starts at or after that end; on an empty timeline the generated cues are
\* applied unshifted.
C18_GeneratedAppended ==
    GeneratedApplied =>
        LET out == assistant.applied[Len(assistant.applied)]
            gen == assistant.response.cues
            n == Len(cues)
        IN  IF n = 0
            THEN out = gen
            ELSE /\ Len(out) = n + Len(gen)
                 /\ SubSeq(out, 1, n) = cues
                 /\ \A i \in 1..Len(gen) :
                        /\ out[n + i].start = cues[n].end + gen[i].start
                        /\ out[n + i].end = cues[n].end + gen[i].end
                        /\ out[n + i].text = gen[i].text
                        /\ out[n + i].start >= cues[n].end

\* C18 witness: generated cues were appended to a non-empty timeline.
C18_Witness ==
    /\ GeneratedApplied
    /\ Len(cues) = 2
    /\ Len(assistant.response.cues) = 2
    /\ assistant.response.cues[2].start > 0

\* C18 witness: generated cues were applied to an empty timeline.
C18_WitnessEmpty ==
    /\ GeneratedApplied
    /\ cues = <<>>
    /\ assistant.response.cues # <<>>


(***************************************************************************)
(* JSON documents of any shape handed to parseContent: a text JSON.parse   *)
(* rejects, and values that are not the { metadata, cues } object or the   *)
(* array of cues the parser expects.                                       *)
(***************************************************************************)
MaxItems == 2

\* What an array that stands where the cues are expected may hold.
JsonItems ==
    {JNull, JNum(5), JStr(Txt_Hi), JObj(<< >>),
     JObj([id |-> JStr(<<"c">>), start |-> JNum(1000), end |-> JNum(2000),
           text |-> JStr(Txt_Hi)]),
     JObj([start |-> JStr(<<"1">>), words |-> JNum(5)]),
     JObj([start |-> JNull, words |-> JArr(<<JNull>>)]),
     JObj([words |-> JArr(<<JNum(5), JObj([text |-> JStr(Txt_Hi), start |-> JNum(1000)])>>)])}

JsonArrays == {JArr(<<>>)} \cup UNION {{JArr(a) : a \in [1..n -> JsonItems]} : n \in 1..MaxItems}

\* What may stand in the place of cues, or of metadata, in an object.
JsonFields ==
    {JNull, JNum(0), JNum(5), JStr(<<>>), JStr(Txt_Hi), JObj(<< >>),
     JObj([title |-> JStr(<<"T">>)]), JArr(<<>>), JArr(<<JNull>>),
     JArr(<<JObj([start |-> JNum(1000), end |-> JNum(2000), text |-> JStr(Txt_Hi)])>>)}

JsonShapes ==
    {JSyntaxError, JNull, JNum(0), JNum(5), JStr(<<>>), JStr(Txt_Hi), JObj(<< >>)}
    \cup JsonArrays
    \cup {JObj([cues |-> x]) : x \in JsonFields}
    \cup {JObj([metadata |-> x]) : x \in JsonFields}
    \cup {JObj([cues |-> x, metadata |-> JObj([title |-> JStr(<<"T">>)])]) : x \in JsonFields}

InitShapes ==
    /\ pc = "stringified"
    /\ UiIdle
    /\ CodecIdle
    /\ cues = <<>>
    /\ format = "json"
    /\ content \in JsonShapes
    /\ parseTag = "none"
    /\ result = EmptyResult

NextShapes == ParseContent /\ UNCHANGED <<codecVars, uiVars>>

SpecShapes == InitShapes /\ [][NextShapes]_vars

\* Whether r is a ParseResult: an object with a list of cues and metadata.
IsParseResult(r) == DOMAIN r = {"cues", "metadata"}

\* The shapes the claim names: null, a number, an object whose cues is not
\* an array, an array containing null.
UnexpectedShape(doc) ==
    \/ doc.t \in {"null", "num"}
    \/ doc.t = "obj" /\ "cues" \in DOMAIN doc.v /\ doc.v.cues.t # "arr"
    \/ doc.t = "arr" /\ \E i \in 1..Len(doc.v) : doc.v[i].t = "null"

\* C16: parseContent(content, JSON) never throws: for a text that is not
\* valid JSON it returns {cues: [], metadata: {}}, and for a valid JSON value
\* of an unexpected shape it returns a result too.
C16_ParseJsonNeverThrows ==
    pc = "parsed" /\ parseTag = "json" =>
        /\ result # Thrown
        /\ IsParseResult(result)
        /\ content = JSyntaxError =>
               result = [cues |-> <<>>, metadata |-> EmptyMetadata]

\* C16 witness: a value of an unexpected shape, on which the try block
\* throws, was parsed.
C16_Witness ==
    /\ pc = "parsed"
    /\ parseTag = "json"
    /\ format = "json"
    /\ UnexpectedShape(content)
    /\ JsonThrows(content)
    /\ content.t = "arr"

\* C16 witness: a text that is not valid JSON was parsed.
C16_WitnessSyntax ==
    /\ pc = "parsed"
    /\ parseTag = "json"
    /\ cues = <<>>
    /\ content = JSyntaxError


(***************************************************************************)
(* LRC documents handed to parseContent: lines with and without a leading  *)
(* [mm:ss.xx] stamp, some of them with <mm:ss.xx> word markers.            *)
(***************************************************************************)
MaxLrcLines == 2

LrcWordPart(marker, text) == [marker |-> marker, text |-> text]

\* A line: its stamp (none for a line that is no lyric), the text before
\* the first marker, and the markers each with the text that follows it.
LrcLine(t, lead, words) == [t |-> t, lead |-> lead, words |-> words]

LrcLineSamples ==
    {LrcLine(<<"0", "0", ":", "0", "1", ".", "0", "0">>, Txt_Hi, <<>>),
     LrcLine(<<"0", "0", ":", "0", "5", ".", "5", "0">>, <<" ", "l", "a", " ">>, <<>>),
     LrcLine(<<"0", "0", ":", "0", "3", ".", "0", "0">>, <<>>, <<>>),
     LrcLine(<<"0", "0", ":", "0", "2", ".", "0", "0">>, <<>>, <<LrcWordPart(<<"0", "0", ":", "0", "2", ".", "0", "0">>, <<"x", " ">>),
                                    LrcWordPart(<<"0", "0", ":", "0", "2", ".", "5", "0">>, <<"y">>)>>),
     LrcLine(<<"0", "0", ":", "0", "2">>, <<"a", " ">>, <<LrcWordPart(<<"0", "0", ":", "0", "2", ".", "1", "0", "0">>, <<"x">>)>>),
     LrcLine(<<"0", "0", ":", "0", "4", ".", "0", "0">>, <<"<", "i", ">", "H", "i", "<", "/", "i", ">">>, <<>>),
     LrcLine(<<>>, <<"j", "u", "n", "k">>, <<>>),
     LrcLine(<<>>, <<"[", "t", "i", ":", "T", "]">>, <<>>)}

LrcLineText(l) ==
    IF l.t = <<>> THEN l.lead
    ELSE <<"[">> \o l.t \o <<"]">> \o l.lead
         \o Flatten([j \in 1..Len(l.words) |->
                        <<"<">> \o l.words[j].marker \o <<">">> \o l.words[j].text])

LineBreaks == {NL, <<"\r", "\n">>}

LrcDocument(o) == join([k \in 1..Len(o.lines) |-> LrcLineText(o.lines[k])], o.break)

InitLrc ==
    /\ pc = "stringified"
    /\ UiIdle
    /\ ms = 0
    /\ timeStr = <<>>
    /\ decoded = 0
    /\ origin \in { [rule |-> "lrc", lines |-> ls, break |-> b] :
                      ls \in UNION { [1..n -> LrcLineSamples] : n \in 0..MaxLrcLines },
                      b \in LineBreaks }
    /\ content = LrcDocument(origin)
    /\ format = "lrc"
    /\ cues = <<>>
    /\ parseTag = "none"
    /\ result = EmptyResult

NextLrc == ParseContent /\ UNCHANGED <<codecVars, uiVars>>

SpecLrc == InitLrc /\ [][NextLrc]_vars

\* C19: the cues parseContent(content, LRC) returns each end where the next
\* one starts, and the last one ends 3000 ms after its start.
C19_LrcEndsInferred ==
    pc = "parsed" /\ parseTag = "lrc" =>
        LET c == result.cues
            n == Len(c)
        IN  /\ \A i \in 1..(n - 1) : c[i].end = c[i + 1].start
            /\ n > 0 => c[n].end = c[n].start + 3000

\* C19 witness: a document of two lyric lines, the second earlier than the
\* first, was parsed.
C19_Witness ==
    /\ pc = "parsed"
    /\ parseTag = "lrc"
    /\ Len(result.cues) = 2
    /\ result.cues[1].start > result.cues[2].start
    /\ result.cues[1].end = result.cues[2].start

\* The lyric lines of a document, in order.
StampedLines(o) == SelectSeq(o.lines, LAMBDA l : l.t # <<>>)

\* C20: a line '[t]rest' with <timestamp> word markers gives a cue whose text
\* is rest without the markers and one Word per marker, in order, starting
\* at timeToMs(marker) with the text between that marker and the next (texts
\* compared trimmed); a line without markers gives a cue with no words
\* and the trimmed rest as text.
C20_LrcWordMarkers ==
    pc = "parsed" /\ parseTag \in {"lrc", "lrc_enhanced"} /\ origin.rule = "lrc" =>
        LET ls == StampedLines(origin)
            c == result.cues
        IN  /\ Len(c) = Len(ls)
            /\ \A k \in 1..Len(ls) :
                  IF ls[k].words # <<>>
                  THEN /\ c[k].text = trim(ls[k].lead
                              \o Flatten([j \in 1..Len(ls[k].words) |-> ls[k].words[j].text]))
                       /\ c[k].hasWords
                       /\ Len(c[k].words) = Len(ls[k].words)
                       /\ \A j \in 1..Len(ls[k].words) :
                             /\ c[k].words[j].start = timeToMs(ls[k].words[j].marker)
                             /\ c[k].words[j].text = trim(ls[k].words[j].text)
                  ELSE /\ ~c[k].hasWords
                       /\ c[k].text = trim(ls[k].lead)


(***************************************************************************)
(* WebVTT documents handed to parseContent: an optional WEBVTT header and  *)
(* then time lines, blank lines and text lines in any order.               *)
(***************************************************************************)
MaxVttLines == 4

\* A segment of a text line: its words and the <timestamp> tag that follows
\* it (none for the last segment), with the time the tag shows.
VttSegment(words, tag, at) == [words |-> words, tag |-> tag, at |-> at]

VttSegmentText(g) ==
    join(g.words, <<" ">>) \o (IF g.tag = <<>> THEN <<>> ELSE <<"<">> \o g.tag \o <<">">>)

VttTimeLine(text, start) == [kind |-> "time", text |-> text, start |-> start, segs |-> <<>>]

VttBlankLine == [kind |-> "blank", text |-> <<>>, start |-> 0, segs |-> <<>>]

VttTextLine(segs) ==
    [kind |-> "text",
     text |-> Flatten([k \in 1..Len(segs) |-> VttSegmentText(segs[k])]),
     start |-> 0,
     segs |-> segs]

VttLineSamples ==
    {VttTimeLine(<<"0", "0", ":", "0", "0", ":", "0", "1", ".", "0", "0", "0", " ", "-", "-", ">", " ", "0", "0", ":", "0", "0", ":", "0", "3", ".", "0", "0", "0">>, 1000),
     VttTimeLine(<<"0", "0", ":", "0", "0", ":", "0", "4", ".", "0", "0", "0", " ", "-", "-", ">", " ", "0", "0", ":", "0", "0", ":", "0", "6", ".", "0", "0", "0", " ", "a", "l", "i", "g", "n", ":", "s", "t", "a", "r", "t">>, 4000),
     VttBlankLine,
     VttTextLine(<<VttSegment(<<Txt_Hi>>, <<>>, 0)>>),
     VttTextLine(<<VttSegment(<<<<"x">>, <<"y">>>>, <<"0", "0", ":", "0", "0", ":", "0", "2", ".", "0", "0", "0">>, 2000),
                   VttSegment(<<<<"z">>>>, <<>>, 0)>>),
     VttTextLine(<<VttSegment(<<>>, <<"0", "0", ":", "0", "0", ":", "0", "1", ".", "5", "0", "0">>, 1500),
                   VttSegment(<<<<"a">>>>, <<"0", "0", ":", "0", "0", ":", "0", "2", ".", "5", "0", "0">>, 2500),
                   VttSegment(<<<<"b">>>>, <<>>, 0)>>)}

VttDocument(o) ==
    (IF o.header THEN Str_WEBVTT \o <<"\n", "\n">> ELSE <<>>)
    \o join([k \in 1..Len(o.lines) |-> o.lines[k].text], NL)

InitVtt ==
    /\ pc = "stringified"
    /\ UiIdle
    /\ origin \in { [rule |-> "vtt", header |-> h, lines |-> ls] :
                      h \in BOOLEAN,
                      ls \in UNION { [1..n -> VttLineSamples] : n \in 0..MaxVttLines } }
    /\ content = VttDocument(origin)
    /\ format = "vtt"
    /\ ms = 0
    /\ timeStr = <<>>
    /\ decoded = 0
    /\ cues = <<>>
    /\ parseTag = "none"
    /\ result = EmptyResult

NextVtt == ParseContent /\ UNCHANGED <<codecVars, uiVars>>

SpecVtt == InitVtt /\ [][NextVtt]_vars

\* The cues as the state machine {idle, accumulating} gives them, each with
\* the start of its time line and its text lines: a time line starts a cue,
\* a blank line ends it, a text line joins the cue being accumulated or
\* none.  `open` tells whether a cue is being accumulated, `acc` holds the
\* cues so far, the last one being the open one.
RECURSIVE MachineCues(_, _, _, _)
MachineCues(lines, k, open, acc) ==
    IF k > Len(lines) THEN acc
    ELSE IF lines[k].kind = "time"
    THEN MachineCues(lines, k + 1, TRUE,
            Append(acc, [start |-> lines[k].start, lines |-> <<>>]))
    ELSE IF lines[k].kind = "blank" THEN MachineCues(lines, k + 1, FALSE, acc)
    ELSE IF open
    THEN MachineCues(lines, k + 1, TRUE,
            [acc EXCEPT ![Len(acc)].lines = Append(@, lines[k])])
    ELSE MachineCues(lines, k + 1, FALSE, acc)

\* The cues of MachineCues that have a text line.
MachineKept(lines) ==
    SelectSeq(MachineCues(lines, 1, FALSE, <<>>), LAMBDA c : Len(c.lines) > 0)

\* The texts of the cues of the state machine.
MachineTexts(lines) ==
    LET kept == MachineKept(lines)
    IN  [k \in 1..Len(kept) |->
            join([j \in 1..Len(kept[k].lines) |-> trim(StripTags(kept[k].lines[j].text))],
                 NL)]

\* C21: parseVTT is the state machine {header, idle, accumulating}: a text
\* line belongs to the cue of the nearest preceding time line only if no
\* blank line lies between them, and to no cue otherwise.
C21_VttStateMachine ==
    pc = "parsed" /\ parseTag = "vtt" /\ origin.rule = "vtt" =>
        [k \in 1..Len(result.cues) |-> result.cues[k].text] = MachineTexts(origin.lines)


\* Whether no blank line directly follows a time line.
NoBlankAfterTime(lines) ==
    \A k \in 2..Len(lines) : lines[k].kind = "blank" => lines[k - 1].kind # "time"

\* The words of the segments of one line from segment i on: the n words of
\* a segment start at opening + k * d for k = 0..n-1, d being the n-th part
\* of the time from opening to the tag that follows, or 0 without a tag;
\* lo and hi are the opening and the tag time in ascending order.
RECURSIVE SegmentWords(_, _, _)
SegmentWords(segs, i, opening) ==
    IF i > Len(segs) THEN <<>>
    ELSE LET g == segs[i]
             n == Len(g.words)
             tagged == g.tag # <<>>
             d == IF tagged /\ n > 0 THEN (g.at - opening) \div n ELSE 0
             lo == IF tagged /\ g.at < opening THEN g.at ELSE opening
             hi == IF tagged /\ g.at > opening THEN g.at ELSE opening
         IN  [k \in 1..n |-> [text |-> g.words[k], start |-> opening + (k - 1) * d,
                              lo |-> lo, hi |-> hi]]
             \o SegmentWords(segs, i + 1, IF tagged THEN g.at ELSE opening)

\* Whether a text line has a <timestamp> tag.
HasTag(line) == \E i \in 1..Len(line.segs) : line.segs[i].tag # <<>>

\* The words of a cue of the state machine: those of its lines with tags.
MachineWords(c) ==
    Flatten([j \in 1..Len(c.lines) |->
                IF HasTag(c.lines[j]) THEN SegmentWords(c.lines[j].segs, 1, c.start)
                ELSE <<>>])

\* C22: in parseVTT the words of each segment of a text line with inline
\* <timestamp> tags start at opening + k*d, opening being the previous tag
\* time in the line (the cue start for the first segment) and d the n-th part
\* of the time to the next tag (0 when no tag follows), so every word start
\* lies between the opening time and the next tag time.
C22_VttWordTimes ==
    pc = "parsed" /\ parseTag = "vtt" /\ origin.rule = "vtt"
    /\ NoBlankAfterTime(origin.lines) =>
        LET kept == MachineKept(origin.lines)
        IN  /\ Len(result.cues) = Len(kept)
            /\ \A k \in 1..Len(kept) :
                  LET ws == result.cues[k].words
                      claimed == MachineWords(kept[k])
                  IN  /\ Len(ws) = Len(claimed)
                      /\ \A j \in 1..Len(ws) :
                            /\ ws[j].text = claimed[j].text
                            /\ ws[j].start = claimed[j].start
                            /\ claimed[j].lo <= ws[j].start
                            /\ ws[j].start <= claimed[j].hi

\* C22 witness: a cue from 1000 with the line 'x y<00:00:02.000>z' was
\* parsed: x at 1000, y at 1500, z at 2000.
C22_Witness ==
    /\ pc = "parsed"
    /\ parseTag = "vtt"
    /\ Len(result.cues) = 1
    /\ Len(result.cues[1].words) = 3
    /\ result.cues[1].start = 1000
    /\ result.cues[1].words[2].start = 1500
    /\ result.cues[1].words[3].start = 2000

\* C22 witness: the tag time lies before the cue start, and the words of
\* the segment step backwards from the cue start to it.
C22_WitnessBackwards ==
    /\ pc = "parsed"
    /\ parseTag = "vtt"
    /\ Len(result.cues) = 1
    /\ Len(result.cues[1].words) = 3
    /\ result.cues[1].start = 4000
    /\ result.cues[1].words[2].start = 3000


\* The ids of the cues of a ParseResult, in order.
CueIds(r) == [k \in 1..Len(r.cues) |-> r.cues[k].id]

\* C23: within the result of one parseContent call the cue ids are pairwise
\* distinct, whatever the format and the content (JSON content with its own
\* id fields included), and parsing the same content again gives the same
\* ids.
C23_CueIdsDistinct ==
    pc = "parsed" =>
        /\ \A i, j \in 1..Len(result.cues) :
              i # j => result.cues[i].id # result.cues[j].id
        /\ CueIds(parseContent(content, parseTag)) = CueIds(result)


\* C24: every cue parseContent returns for LRC or VTT content that has a
\* (non-empty) words list is consistent with its text: the word texts joined
\* by single spaces are the cue's text.
C24_WordsMatchText ==
    pc = "parsed" /\ parseTag \in {"lrc", "lrc_enhanced", "vtt"} =>
        \A k \in 1..Len(result.cues) :
            LET c == result.cues[k]
            IN  c.hasWords /\ Len(c.words) > 0 =>
                    join([j \in 1..Len(c.words) |-> c.words[j].text], <<" ">>) = c.text


(***************************************************************************)
(* The AI assistant dialog when every AI call settles: the promise that    *)
(* generateLyrics or refineLyrics returned resolves or rejects in the end. *)
(***************************************************************************)
RequestSettles == GenerateResolves \/ RefineResolves \/ RequestRejects

SpecAssistantFair == SpecAssistant /\ WF_vars(RequestSettles)

\* C28: when the AI call fails, onApply and onClose are not called and the
\* cues stay as they are; every request that is started has isLoading reset
\* to false in the end, whether it succeeds or fails; and with a blank
\* prompt no step starts a request or sets isLoading.
C28_FailureLeavesCues ==
    /\ [][assistant'.alerts # assistant.alerts =>
             /\ assistant'.applied = assistant.applied
             /\ assistant'.closed = assistant.closed
             /\ cues' = cues
             /\ ~assistant'.isLoading]_vars
    /\ [][trim(assistant.prompt) = <<>> /\ ~assistant.isLoading =>
             /\ ~assistant'.isLoading
             /\ assistant'.request = assistant.request
             /\ assistant'.requests = assistant.requests]_vars
    /\ (assistant.isLoading ~> ~assistant.isLoading)

\* C28 witness: a request failed: the alert was shown, nothing was applied,
\* the dialog is still open and no longer loading.
C28_Witness ==
    /\ assistant # <<>>
    /\ assistant.alerts > 0
    /\ assistant.requests > 0
    /\ assistant.applied = <<>>
    /\ assistant.closed = 0
    /\ ~assistant.isLoading
    /\ pc = "open"


(***************************************************************************)
(* The cue list editor (CueList): its time inputs, word time inputs, step  *)
(* buttons and drag handlers.  The list handed to onChange comes back as   *)
(* the cues prop of the next render.                                       *)
(***************************************************************************)
\* a % b of JavaScript for b > 0: the sign of the result is that of a.
JsRem(a, b) == IF a >= 0 THEN a % b ELSE 0 - ((0 - a) % b)

\* Number.prototype.toString of an integer or NaN.
JsToStr(n) ==
    IF n = NaN THEN <<"N", "a", "N">>
    ELSE IF n < 0 THEN <<"-">> \o ToStr(0 - n)
    ELSE ToStr(n)

\* msToVtt on any number a cue may hold, NaN and negative numbers included.
msToVttOf(n) ==
    IF n # NaN /\ n >= 0 THEN msToVtt(n)
    ELSE LET Field(v, w) == padStart(JsToStr(v), w, "0")
             h == IF n = NaN THEN NaN ELSE n \div 3600000
             m == IF n = NaN THEN NaN ELSE JsRem(n, 3600000) \div 60000
             s == IF n = NaN THEN NaN ELSE JsRem(n, 60000) \div 1000
             mis == IF n = NaN THEN NaN ELSE JsRem(n, 1000)
         IN  Field(h, 2) \o <<":">> \o Field(m, 2) \o <<":">> \o Field(s, 2)
             \o <<".">> \o Field(mis, 3)

\* msToLrc on any number a word may hold.
msToLrcOf(n) ==
    IF n # NaN /\ n >= 0 THEN msToLrc(n)
    ELSE LET Field(v, w) == padStart(JsToStr(v), w, "0")
             r == IF n = NaN THEN NaN ELSE RoundDiv10(n) * 10
             m == IF n = NaN THEN NaN ELSE r \div 60000
             s == IF n = NaN THEN NaN ELSE JsRem(r, 60000) \div 1000
             centis == IF n = NaN THEN NaN ELSE JsRem(r, 1000) \div 10
         IN  Field(m, 2) \o <<":">> \o Field(s, 2) \o <<".">> \o Field(centis, 2)

\* Math.max(0, n).
MathMax0(n) == IF n = NaN THEN NaN ELSE Max0(n)

\* x || 0 for a number that may be absent.
OrZero(n) == IF Truthy(n) THEN n ELSE 0

Str_gen == <<"g", "e", "n", "-">>

\* getDisplayWords: the words of the cue, or words made from its text.
getDisplayWords(cue) ==
    IF cue.hasWords /\ Len(cue.words) > 0 THEN cue.words
    ELSE LET texts == SelectSeq(SplitSpaces(trim(cue.text)), LAMBDA t : Len(t) > 0)
         IN  [i \in 1..Len(texts) |->
                [id |-> Str_gen \o cue.id \o <<"-">> \o ToStr(i - 1),
                 text |-> texts[i],
                 start |-> Plus(cue.start, (i - 1) * 200),
                 end |-> Plus(cue.start, i * 200)]]

\* updateCue(index, field, value) for a time field and a number: the list
\* handed to onChange.  index is 0-based as in the source.
updateCue(cueList, index, field, value) ==
    [cueList EXCEPT ![index + 1] =
        IF field = "start" THEN [@ EXCEPT !.start = value] ELSE [@ EXCEPT !.end = value]]

\* updateWordInCue(cueIndex, wordIndex, 'start', value) for a number: the
\* list handed to onChange.
updateWordInCue(cueList, cueIndex, wordIndex, value) ==
    LET cue == cueList[cueIndex + 1]
        updatedWords == [getDisplayWords(cue) EXCEPT ![wordIndex + 1].start = value]
    IN  [cueList EXCEPT ![cueIndex + 1] =
            [cue EXCEPT !.hasWords = TRUE,
                        !.words = updatedWords,
                        !.text = join([k \in 1..Len(updatedWords) |-> updatedWords[k].text],
                                      <<" ">>)]]


MaxEdits == 2

\* useState<number | null>(null): no index.
Null == 0 - 1

NoFocus == [kind |-> "none", cue |-> 0, field |-> "none", word |-> 0, localText |-> <<>>]

\* No commitChange has run yet.
NoCommit == [done |-> FALSE, ms |-> 0, text |-> <<>>, called |-> FALSE, value |-> 0,
             shown |-> <<>>]

\* No handleDrop has run yet.
NoDrop == [dragged |-> Null, index |-> Null, before |-> <<>>, called |-> FALSE]

EditorAtRest ==
    [draggedIndex |-> Null, overIndex |-> Null, focus |-> NoFocus,
     calls |-> 0, last |-> <<>>, commit |-> NoCommit,
     handler |-> "none", dropped |-> NoDrop]

\* onChange(newCues): the call is recorded and the list is the next cues prop.
Changed(newCues, focus, commit) ==
    /\ cues' = newCues
    /\ editor' = [editor EXCEPT !.focus = focus, !.commit = commit,
                                !.calls = @ + 1, !.last = newCues]

\* The time a TimeInput shows: the start or the end of cue i.
TimeOf(cueList, i, field) ==
    IF field = "start" THEN cueList[i + 1].start ELSE cueList[i + 1].end

\* wordStart of word w of cue i, as the word row computes it.
WordStartOf(cueList, i, w) == OrZero(getDisplayWords(cueList[i + 1])[w + 1].start)

\* onFocus of the TimeInput of a field of cue i.
FocusTime(i, field) ==
    /\ pc = "editing"
    /\ editor.focus = NoFocus
    /\ editor' = [editor EXCEPT !.focus =
           [kind |-> "time", cue |-> i, field |-> field, word |-> 0,
            localText |-> msToVttOf(TimeOf(cues, i, field))]]
    /\ UNCHANGED <<pc, codecVars, docVars, assistant>>

\* onFocus of the WordTimeInput of word w of cue i.
FocusWord(i, w) ==
    /\ pc = "editing"
    /\ editor.focus = NoFocus
    /\ w < Len(getDisplayWords(cues[i + 1]))
    /\ editor' = [editor EXCEPT !.focus =
           [kind |-> "word", cue |-> i, field |-> "start", word |-> w,
            localText |-> msToLrcOf(WordStartOf(cues, i, w))]]
    /\ UNCHANGED <<pc, codecVars, docVars, assistant>>

\* onChange of the focused input: setLocalText(e.target.value).
TypeText(text) ==
    /\ pc = "editing"
    /\ editor.focus # NoFocus
    /\ editor' = [editor EXCEPT !.focus.localText = text]
    /\ UNCHANGED <<pc, codecVars, docVars, assistant>>

\* localText.replace(/[^\d]/g, '').
DigitsOnly(text) == SelectSeq(text, IsDigit)

\* commitChange without its validation: nothing is reverted.
CommitReverts_Never(localText, current) == FALSE

\* Whether TimeInput.commitChange reverts the field instead of calling
\* onChange: the text decodes to 0, the time is not 0, and the text is
\* neither blank nor made of zeros.
CommitReverts(localText, current) ==
    LET digits == DigitsOnly(localText)
        allZero == Len(digits) > 0 /\ \A k \in 1..Len(digits) : digits[k] = "0"
    IN  /\ timeToMs(localText) = 0
        /\ current # 0
        /\ ~allZero
        /\ trim(localText) # <<>>

\* onBlur of the focused TimeInput: setIsFocused(false); commitChange().
BlurTime ==
    /\ pc = "editing"
    /\ editor.focus.kind = "time"
    /\ editor.calls < MaxEdits
    /\ LET f == editor.focus
           ms0 == TimeOf(cues, f.cue, f.field)
           val == timeToMs(f.localText)
       IN  IF CommitReverts(f.localText, ms0)
           THEN /\ editor' = [editor EXCEPT
                       !.focus = NoFocus,
                       !.commit = [done |-> TRUE, ms |-> ms0, text |-> f.localText,
                                   called |-> FALSE, value |-> 0,
                                   shown |-> msToVttOf(ms0)]]
                /\ UNCHANGED cues
           ELSE Changed(updateCue(cues, f.cue, f.field, val), NoFocus,
                        [done |-> TRUE, ms |-> ms0, text |-> f.localText,
                         called |-> TRUE, value |-> val, shown |-> msToVttOf(val)])
    /\ UNCHANGED <<pc, codecVars, format, content, parseTag, result, assistant>>

\* onBlur of the focused WordTimeInput: commitChange() hands timeToMs of the
\* text to updateWordInCue.
BlurWord ==
    /\ pc = "editing"
    /\ editor.focus.kind = "word"
    /\ editor.calls < MaxEdits
    /\ Changed(updateWordInCue(cues, editor.focus.cue, editor.focus.word,
                               timeToMs(editor.focus.localText)),
               NoFocus, editor.commit)
    /\ UNCHANGED <<pc, codecVars, format, content, parseTag, result, assistant>>

\* handleKeyDown of the focused input on '-' or '_' (amount -100) and on
\* '+' or '=' (amount 100).
KeyStep(amount) ==
    /\ pc = "editing"
    /\ editor.focus # NoFocus
    /\ editor.calls < MaxEdits
    /\ LET f == editor.focus
           ms0 == IF f.kind = "time" THEN TimeOf(cues, f.cue, f.field)
                  ELSE WordStartOf(cues, f.cue, f.word)
           newVal == IF amount < 0 THEN MathMax0(Plus(ms0, amount)) ELSE Plus(ms0, amount)
       IN  IF f.kind = "time"
           THEN Changed(updateCue(cues, f.cue, f.field, newVal),
                        [f EXCEPT !.localText = msToVttOf(newVal)], editor.commit)
           ELSE Changed(updateWordInCue(cues, f.cue, f.word, newVal),
                        [f EXCEPT !.localText = msToLrcOf(newVal)], editor.commit)
    /\ UNCHANGED <<pc, codecVars, format, content, parseTag, result, assistant>>

\* The -0.1s and +0.1s buttons of a TimeInput: handleStep(amount).
StepTime(i, field, amount) ==
    /\ pc = "editing"
    /\ editor.focus = NoFocus
    /\ editor.calls < MaxEdits
    /\ Changed(updateCue(cues, i, field, MathMax0(Plus(TimeOf(cues, i, field), amount))),
               NoFocus, editor.commit)
    /\ UNCHANGED <<pc, codecVars, format, content, parseTag, result, assistant>>

\* The -0.1s and +0.1s buttons of a word: updateWordInCue with
\* wordStart - 100 or wordStart + 100.
StepWord(i, w, amount) ==
    /\ pc = "editing"
    /\ editor.focus = NoFocus
    /\ editor.calls < MaxEdits
    /\ w < Len(getDisplayWords(cues[i + 1]))
    /\ Changed(updateWordInCue(cues, i, w, Plus(WordStartOf(cues, i, w), amount)),
               NoFocus, editor.commit)
    /\ UNCHANGED <<pc, codecVars, format, content, parseTag, result, assistant>>


\* The cue lists the editor is opened on: every time is finite and 0 or more.
EditedLists ==
    {<<PlainCue(0, 1000, Txt_Hi)>>,
     <<WordCue(1000, 1504), PlainCue(3000, 4000, Txt_La)>>}

\* What is typed into a time input.
EditedTexts ==
    {<<>>, <<" ">>, <<"a", "b", "c">>, <<"0">>, <<"0", "0", ":", "0", "0", ":", "0", "0", ".", "0", "0", "0">>, <<"0", "0", ":", "0", "0", ":", "0", "1", ".", "5", "0", "0">>, <<"1", ".", "5">>, <<"s">>, <<"-", "5", "s">>}

InitEditor ==
    /\ pc = "editing"
    /\ cues \in EditedLists
    /\ editor = EditorAtRest
    /\ assistant = <<>>
    /\ format = "srt"
    /\ content = <<>>
    /\ parseTag = "srt"
    /\ result = EmptyResult
    /\ CodecIdle

NextEditor ==
    \/ \E i \in 0..(Len(cues) - 1), field \in {"start", "end"} : FocusTime(i, field)
    \/ \E i \in 0..(Len(cues) - 1), w \in 0..1 : FocusWord(i, w)
    \/ \E text \in EditedTexts : TypeText(text)
    \/ BlurTime
    \/ BlurWord
    \/ \E amount \in {0 - 100, 100} : KeyStep(amount)
    \/ \E i \in 0..(Len(cues) - 1), field \in {"start", "end"}, amount \in {0 - 100, 100} :
          StepTime(i, field, amount)
    \/ \E i \in 0..(Len(cues) - 1), w \in 0..1, amount \in {0 - 100, 100} :
          StepWord(i, w, amount)

SpecEditor == InitEditor /\ [][NextEditor]_vars

\* Whether n is a finite number that is 0 or more.
FiniteNonNegative(n) == n # NaN /\ n # Undefined /\ n >= 0

\* C25: starting from cues whose times are finite and 0 or more, after any
\* sequence of editing operations of the cue list every cue start, cue end
\* and word start handed to onChange is a finite number that is 0 or more.
C25_TimesStayValid ==
    editor # <<>> /\ editor.calls > 0 =>
        \A k \in 1..Len(editor.last) :
            /\ FiniteNonNegative(editor.last[k].start)
            /\ FiniteNonNegative(editor.last[k].end)
            /\ \A j \in 1..Len(editor.last[k].words) :
                   FiniteNonNegative(editor.last[k].words[j].start)


(***************************************************************************)
(* One TimeInput at a time: focus, typing and blur.                        *)
(***************************************************************************)
NextCommit ==
    \/ \E i \in 0..(Len(cues) - 1), field \in {"start", "end"} : FocusTime(i, field)
    \/ \E text \in EditedTexts : TypeText(text)
    \/ BlurTime

SpecCommit == InitEditor /\ [][NextCommit]_vars

\* Whether a text is an explicit zero: it has digits and they are all 0.
ExplicitZero(text) ==
    /\ \E k \in 1..Len(text) : IsDigit(text[k])
    /\ \A k \in 1..Len(text) : IsDigit(text[k]) => text[k] = "0"

\* The last commitChange ran on a time that is not 0 with a text that
\* decodes to 0.
ZeroingCommit ==
    /\ editor # <<>>
    /\ editor.commit.done
    /\ editor.commit.ms # 0
    /\ timeToMs(editor.commit.text) = 0

\* C26 as stated: when the time is not 0 and the typed text decodes to 0,
\* onChange(0) is called only for an explicit zero; for every other text,
\* blank text included, the field reverts and onChange is not called.
C26_ZeroOnlyWhenExplicit ==
    ZeroingCommit =>
        IF ExplicitZero(editor.commit.text)
        THEN editor.commit.called /\ editor.commit.value = 0
        ELSE ~editor.commit.called /\ editor.commit.shown = msToVttOf(editor.commit.ms)

\* C26 amended: when the time is not 0 and the typed text decodes to 0,
\* onChange(0) is called only for an explicit zero or a blank text; for
\* every other text the field reverts and onChange is not called.
C26_ZeroWhenExplicitOrBlank ==
    ZeroingCommit =>
        IF ExplicitZero(editor.commit.text) \/ trim(editor.commit.text) = <<>>
        THEN editor.commit.called /\ editor.commit.value = 0
        ELSE ~editor.commit.called /\ editor.commit.shown = msToVttOf(editor.commit.ms)

\* C26 witness: 'abc' was committed on a time that is not 0 and the field
\* reverted.
C26_Witness ==
    /\ ZeroingCommit
    /\ editor.commit.text = <<"a", "b", "c">>
    /\ ~editor.commit.called
    /\ editor.calls = 0

\* C26 witness: an explicit zero was committed on a time that is not 0.
C26_WitnessZero ==
    /\ ZeroingCommit
    /\ editor.commit.text = <<"0">>
    /\ editor.commit.called
    /\ editor.last[1].end = 0


(***************************************************************************)
(* Drag and drop of the rows of the cue list.  A drag that starts outside  *)
(* the list reaches handleDragOver and handleDrop with draggedIndex null.  *)
(***************************************************************************)
MaxRows == 3
MaxDrops == 2

\* The lists whose rows are dragged: n cues, each with times of its own.
DragLists == {[k \in 1..n |-> PlainCue(k * 1000, k * 1000 + 500, Txt_Hi)] : n \in 1..MaxRows}

InitDrag ==
    /\ pc = "editing"
    /\ cues \in DragLists
    /\ editor = EditorAtRest
    /\ assistant = <<>>
    /\ format = "srt"
    /\ content = <<>>
    /\ parseTag = "srt"
    /\ result = EmptyResult
    /\ CodecIdle

\* Array.prototype.splice(index, 1): the list without the item at index.
SpliceOut(list, index) == SubSeq(list, 1, index) \o SubSeq(list, index + 2, Len(list))

\* Array.prototype.splice(index, 0, item): the list with item put at index.
SpliceIn(list, index, item) ==
    SubSeq(list, 1, index) \o <<item>> \o SubSeq(list, index + 1, Len(list))

HandleDragStart(index) ==
    /\ pc = "editing"
    /\ editor' = [editor EXCEPT !.draggedIndex = index, !.overIndex = Null,
                                !.handler = "dragstart"]
    /\ UNCHANGED <<pc, codecVars, docVars, assistant>>

HandleDragOver(index) ==
    /\ pc = "editing"
    /\ IF editor.draggedIndex = index THEN editor' = [editor EXCEPT !.handler = "dragover"]
       ELSE editor' = [editor EXCEPT !.overIndex = index, !.handler = "dragover"]
    /\ UNCHANGED <<pc, codecVars, docVars, assistant>>

HandleDrop(dropIndex) ==
    /\ pc = "editing"
    /\ IF editor.draggedIndex = Null \/ editor.draggedIndex = dropIndex
       THEN /\ editor' = [editor EXCEPT
                   !.handler = "drop",
                   !.dropped = [dragged |-> editor.draggedIndex, index |-> dropIndex,
                                before |-> cues, called |-> FALSE]]
            /\ UNCHANGED cues
       ELSE LET newCues == SpliceIn(SpliceOut(cues, editor.draggedIndex), dropIndex,
                                    cues[editor.draggedIndex + 1])
            IN  /\ editor.calls < MaxDrops
                /\ cues' = newCues
                /\ editor' = [editor EXCEPT
                       !.handler = "drop",
                       !.dropped = [dragged |-> editor.draggedIndex, index |-> dropIndex,
                                    before |-> cues, called |-> TRUE],
                       !.calls = @ + 1,
                       !.last = newCues,
                       !.draggedIndex = Null,
                       !.overIndex = Null]
    /\ UNCHANGED <<pc, codecVars, format, content, parseTag, result, assistant>>

HandleDragEnd ==
    /\ pc = "editing"
    /\ editor' = [editor EXCEPT !.draggedIndex = Null, !.overIndex = Null,
                                !.handler = "dragend"]
    /\ UNCHANGED <<pc, codecVars, docVars, assistant>>

NextDrag ==
    \/ \E index \in 0..(Len(cues) - 1) : HandleDragStart(index)
    \/ \E index \in 0..(Len(cues) - 1) : HandleDragOver(index)
    \/ \E dropIndex \in 0..(Len(cues) - 1) : HandleDrop(dropIndex)
    \/ HandleDragEnd

SpecDrag == InitDrag /\ [][NextDrag]_vars

\* C27: a drop only reorders: with the dragged index d different from
\* dropIndex the list handed to onChange has the dragged cue at dropIndex
\* and the other cues in their order, unchanged; a drop with no drag in
\* progress or onto the same index calls onChange not at all; and after any
\* drop or drag-end draggedIndex and overIndex are null.
C27_DropOnlyReorders ==
    /\ editor.handler = "drop" =>
           LET d == editor.dropped.dragged
               i == editor.dropped.index
               before == editor.dropped.before
           IN  IF d # Null /\ d # i
               THEN /\ editor.dropped.called
                    /\ cues = editor.last
                    /\ Len(editor.last) = Len(before)
                    /\ editor.last[i + 1] = before[d + 1]
                    /\ SpliceOut(editor.last, i) = SpliceOut(before, d)
               ELSE /\ ~editor.dropped.called
                    /\ cues = before
    /\ editor.handler \in {"drop", "dragend"} =>
           editor.draggedIndex = Null /\ editor.overIndex = Null

=============================================================================
